---- MODULE Spec2Model ----
(***************************************************************************)
(* A state-machine model of the Burrow lending core of the USN contract   *)
(* (src/src/burrow): pools, assets, accounts, the action batch engine,    *)
(* liquidation, force close, the asynchronous withdraw callback and the   *)
(* farm settlement pass.                                                  *)
(*                                                                         *)
(* One external invocation is one action of the model.  An invocation     *)
(* works on an invocation context `ctx` (the persisted collections, the   *)
(* per-invocation ASSETS / ASSET_FARMS caches and the in-memory acting    *)
(* account); a panic anywhere in the invocation sets ctx.failed and the   *)
(* host then discards every write of the invocation.                      *)
(*                                                                         *)
(* Integers are unbounded in the model; amounts are kept small, so the    *)
(* only u128 arithmetic failure that can occur is subtraction underflow,  *)
(* which is modelled as a panic.                                          *)
(***************************************************************************)
EXTENDS Integers, Sequences, FiniteSets, TLC

VARIABLES
    assets,        \* Burrow.assets : token -> Asset (persisted)
    accounts,      \* Burrow.accounts : account id -> Account (persisted)
    asset_farms,   \* Burrow.asset_farms : farm id -> AssetFarm (persisted)
    inactive_rewards, \* AssetFarm.inactive_rewards of every farm (persisted)
    last_prices,   \* Burrow.last_prices : token -> Price
    config,        \* Burrow.config
    ft,            \* FungibleTokenFreeStorage balances of the USN token
    promises,      \* ft_transfer promises in flight, each with its callback
    now,           \* env::block_timestamp(), nanoseconds
    ops,           \* number of invocations so far (bounded)
    last,          \* observation of the last invocation
    probe          \* inputs and outputs of the pure-function specifications

vars == <<assets, accounts, asset_farms, inactive_rewards, last_prices, config,
          ft, promises, now, ops, last, probe>>

persisted == <<assets, accounts, asset_farms, inactive_rewards, last_prices,
               config, ft>>

-----------------------------------------------------------------------------
(* Bounds of the model *)

MaxOps == 4
MaxPoolShares == 4
MaxPoolBalance == 6
MaxProbeAmount == 7
MaxAssetBalance == 3
MaxElapsedMs == 2
MaxRateSupplied == 100

-----------------------------------------------------------------------------
(* Identifiers *)

USN == "usn"
Tokens == {"usn", "A", "B"}
Users == {"alice", "bob"}
AccountIds == Users \cup {USN}

usn_id == USN
is_usn(id) == id = usn_id

\* Option<T>: the empty sequence is None, <<v>> is Some(v)
None == << >>
Some(v) == <<v>>
IsSome(o) == Len(o) > 0
Unwrap(o) == o[1]

\* a map with no entries (HashMap::new())
EmptyMap == [x \in {} |-> 0]

MapInsert(m, k, v) == [x \in (DOMAIN m) \cup {k} |-> IF x = k THEN v ELSE m[x]]
MapRemove(m, k) == [x \in (DOMAIN m) \ {k} |-> m[x]]
MapGet(m, k, default) == IF k \in DOMAIN m THEN m[k] ELSE default

Min(a, b) == IF a <= b THEN a ELSE b
Max(a, b) == IF a >= b THEN a ELSE b

RECURSIVE SumOver(_, _)
\* sum of f[x] over the finite set S
SumOver(S, f) ==
    IF S = {} THEN 0
    ELSE LET x == CHOOSE y \in S : TRUE
         IN f[x] + SumOver(S \ {x}, f)

RECURSIVE SeqOf(_)
\* the elements of a finite set in the order of an iteration over it
SeqOf(S) ==
    IF S = {} THEN << >>
    ELSE LET x == CHOOSE y \in S : TRUE
         IN <<x>> \o SeqOf(S \ {x})

-----------------------------------------------------------------------------
(* utils.rs *)

MAX_RATIO == 10000
MAX_POS == 10000
NANOS_PER_MS == 1000000

nano_to_ms(nano) == nano \div NANOS_PER_MS
ms_to_nano(ms) == ms * NANOS_PER_MS

\* denom = 0 panics (round_up underflows denom - 1, otherwise division by zero)
u128_ratio_ok(denom) == denom > 0

u128_ratio(a, num, denom, round_up) ==
    LET extra == IF round_up THEN denom - 1 ELSE 0
    IN (a * num + extra) \div denom

ratio(balance, r) == u128_ratio(balance, r, MAX_RATIO, FALSE)

-----------------------------------------------------------------------------
(* BigDecimal: a fixed-point decimal, value = raw / BIG_DIVISOR.  The      *)
(* module big_decimal.rs is not part of the sources; the operators follow *)
(* the specification (add/sub/mul/div, power by integer, conversion from  *)
(* and to integer balances), at a precision of two decimals.              *)

NUM_DECIMALS == 2
BIG_DIVISOR == 100
HALF_DIVISOR == 50

RECURSIVE exp10(_)
exp10(n) == IF n = 0 THEN 1 ELSE 10 * exp10(n - 1)

bd_zero == 0
bd_one == BIG_DIVISOR
bd_from(n) == n * BIG_DIVISOR
bd_from_ratio(r) == (r * BIG_DIVISOR) \div MAX_RATIO
bd_mul(a, b) == (a * b + HALF_DIVISOR) \div BIG_DIVISOR
\* b = 0 panics
bd_div(a, b) == (a * BIG_DIVISOR + HALF_DIVISOR) \div b
bd_div_u128(a, n) == a \div n
bd_mul_ratio(a, r) == (a * r) \div MAX_RATIO
bd_div_ratio(a, r) == (a * MAX_RATIO) \div r
bd_round_mul_u128(a, n) == (a * n + HALF_DIVISOR) \div BIG_DIVISOR

RECURSIVE bd_pow(_, _)
bd_pow(x, e) ==
    IF e = 0 THEN bd_one
    ELSE IF e % 2 = 1 THEN bd_mul(bd_pow(x, e - 1), x)
    ELSE LET h == bd_pow(x, e \div 2) IN bd_mul(h, h)

\* Price = [multiplier, decimals]
bd_from_balance_price(balance, price, extra_decimals) ==
    LET num == price.multiplier * balance
        d == price.decimals + extra_decimals
    IN IF d > NUM_DECIMALS THEN num \div exp10(d - NUM_DECIMALS)
       ELSE num * exp10(NUM_DECIMALS - d)

-----------------------------------------------------------------------------
(* pool.rs *)

NewPool == [shares |-> 0, balance |-> 0, usn_interest |-> 0]

\* amount_to_shares without its round_up branch: the shares always round down
amount_to_shares_floor(pool, amount, round_up) ==
    IF pool.balance = 0 THEN amount
    ELSE (pool.shares * amount) \div pool.balance

amount_to_shares(pool, amount, round_up) ==
    IF pool.balance = 0 THEN amount
    ELSE LET extra == IF round_up THEN pool.balance - 1 ELSE 0
         IN (pool.shares * amount + extra) \div pool.balance

\* the assert! of shares_to_amount: FALSE means the conversion panics
shares_to_amount_ok(pool, shares) ==
    \/ shares >= pool.balance
    \/ shares = pool.shares
    \/ shares < pool.shares

shares_to_amount(pool, shares, round_up) ==
    IF shares >= pool.balance \/ shares = pool.shares THEN pool.balance
    ELSE LET extra == IF round_up THEN pool.shares - 1 ELSE 0
         IN (pool.balance * shares + extra) \div pool.shares

assert_invariant(pool) == pool.balance >= pool.shares

pool_deposit(pool, shares, amount) ==
    [pool EXCEPT !.shares = @ + shares, !.balance = @ + amount]

\* u128 subtraction: a negative field means the subtraction panicked
pool_withdraw_ok(pool, shares, amount) ==
    pool.shares >= shares /\ pool.balance >= amount

pool_withdraw(pool, shares, amount) ==
    [pool EXCEPT !.shares = @ - shares, !.balance = @ - amount]

-----------------------------------------------------------------------------
(* asset_config.rs *)

asset_config_assert_valid(c) ==
    /\ c.reserve_ratio <= MAX_RATIO
    /\ c.target_utilization < MAX_POS
    /\ c.target_utilization_rate <= c.max_utilization_rate
    /\ c.volatility_ratio < MAX_RATIO

\* the BigDecimal subtractions of get_rate do not go below zero (they panic)
get_rate_ok(c, borrowed_balance, total_supplied_balance, token_id) ==
    \/ (total_supplied_balance = 0 /\ ~is_usn(token_id))
    \/ (borrowed_balance = 0 /\ is_usn(token_id))
    \/ IF is_usn(token_id) \/ bd_div_u128(bd_from(borrowed_balance), total_supplied_balance)
                                  >= bd_from_ratio(c.target_utilization)
       THEN c.max_utilization_rate >= c.target_utilization_rate
       ELSE c.target_utilization_rate >= bd_one

\* a rate that follows the utilization for the stable token too
get_rate_by_utilization(c, borrowed_balance, total_supplied_balance, token_id) ==
    IF \/ (total_supplied_balance = 0 /\ ~is_usn(token_id))
       \/ (borrowed_balance = 0 /\ is_usn(token_id))
    THEN bd_one
    ELSE LET pos == IF total_supplied_balance = 0 THEN bd_one
                    ELSE bd_div_u128(bd_from(borrowed_balance), total_supplied_balance)
             target_utilization == bd_from_ratio(c.target_utilization)
         IN IF pos < target_utilization
            THEN bd_one + bd_div(bd_mul(pos, c.target_utilization_rate - bd_one),
                                 target_utilization)
            ELSE c.target_utilization_rate
                 + bd_div(bd_mul(pos - target_utilization,
                                 c.max_utilization_rate - c.target_utilization_rate),
                          bd_from_ratio(MAX_POS - c.target_utilization))

get_rate(c, borrowed_balance, total_supplied_balance, token_id) ==
    IF \/ (total_supplied_balance = 0 /\ ~is_usn(token_id))
       \/ (borrowed_balance = 0 /\ is_usn(token_id))
    THEN bd_one
    ELSE LET pos == IF is_usn(token_id) THEN bd_one
                    ELSE bd_div_u128(bd_from(borrowed_balance), total_supplied_balance)
             target_utilization == bd_from_ratio(c.target_utilization)
         IN IF pos < target_utilization
            THEN bd_one + bd_div(bd_mul(pos, c.target_utilization_rate - bd_one),
                                 target_utilization)
            ELSE c.target_utilization_rate
                 + bd_div(bd_mul(pos - target_utilization,
                                 c.max_utilization_rate - c.target_utilization_rate),
                          bd_from_ratio(MAX_POS - c.target_utilization))

-----------------------------------------------------------------------------
(* asset.rs *)

NewAsset(timestamp, c) ==
    [supplied |-> NewPool, borrowed |-> NewPool, reserved |-> 0,
     last_update_timestamp |-> timestamp, config |-> c]

asset_get_rate(asset, token_id) ==
    get_rate(asset.config, asset.borrowed.balance,
             asset.supplied.balance + asset.reserved, token_id)

\* the interest of time_diff_ms milliseconds on the borrowed balance
compound_interest(asset, time_diff_ms, token_id) ==
    bd_round_mul_u128(bd_pow(asset_get_rate(asset, token_id), time_diff_ms),
                      asset.borrowed.balance)
    - asset.borrowed.balance

\* a distribution that pays the suppliers the whole interest and charges the
\* reserve its part
compound_apply_charging_reserve(asset, interest, reserved, token_id) ==
    IF is_usn(token_id)
    THEN [asset EXCEPT !.supplied.usn_interest = @ + (interest - reserved),
                       !.reserved = @ + reserved,
                       !.borrowed.usn_interest = @ + interest]
    ELSE IF asset.supplied.shares > 0
    THEN [asset EXCEPT !.supplied.balance = @ + (interest - reserved),
                       !.reserved = @ - reserved,
                       !.borrowed.balance = @ + interest]
    ELSE [asset EXCEPT !.reserved = @ + interest,
                       !.borrowed.balance = @ + interest]

\* the distribution of the interest between the reserve and the suppliers
compound_apply(asset, interest, reserved, token_id) ==
    IF is_usn(token_id)
    THEN [asset EXCEPT !.supplied.usn_interest = @ + (interest - reserved),
                       !.reserved = @ + reserved,
                       !.borrowed.usn_interest = @ + interest]
    ELSE IF asset.supplied.shares > 0
    THEN [asset EXCEPT !.supplied.balance = @ + (interest - reserved),
                       !.reserved = @ + reserved,
                       !.borrowed.balance = @ + interest]
    ELSE [asset EXCEPT !.reserved = @ + interest,
                       !.borrowed.balance = @ + interest]

\* a split that rounds the part of the reserve up
compound_split_rounding_up(asset, interest, token_id) ==
    compound_apply(asset, interest,
                   (interest * asset.config.reserve_ratio + (MAX_RATIO - 1)) \div MAX_RATIO,
                   token_id)

compound_split(asset, interest, token_id) ==
    compound_apply(asset, interest, ratio(interest, asset.config.reserve_ratio),
                   token_id)

\* neither get_rate nor the u128 subtraction of the interest panics
compound_ok(asset, time_diff_ms, token_id) ==
    /\ get_rate_ok(asset.config, asset.borrowed.balance,
                   asset.supplied.balance + asset.reserved, token_id)
    /\ compound_interest(asset, time_diff_ms, token_id) >= 0

compound(asset, time_diff_ms, token_id) ==
    compound_split(asset, compound_interest(asset, time_diff_ms, token_id), token_id)

\* an update that stamps the asset with the block timestamp itself
asset_update_to_now(asset, token_id, timestamp) ==
    LET time_diff_ms == nano_to_ms(timestamp - asset.last_update_timestamp)
    IN IF time_diff_ms > 0
       THEN compound([asset EXCEPT !.last_update_timestamp = timestamp],
                     time_diff_ms, token_id)
       ELSE asset

asset_update(asset, token_id, timestamp) ==
    LET time_diff_ms == nano_to_ms(timestamp - asset.last_update_timestamp)
    IN IF time_diff_ms > 0
       THEN compound([asset EXCEPT !.last_update_timestamp = @ + ms_to_nano(time_diff_ms)],
                     time_diff_ms, token_id)
       ELSE asset

asset_update_ok(asset, token_id, timestamp) ==
    /\ timestamp >= asset.last_update_timestamp
    /\ nano_to_ms(timestamp - asset.last_update_timestamp) > 0 =>
           compound_ok(asset, nano_to_ms(timestamp - asset.last_update_timestamp), token_id)

\* supplied.balance + reserved - borrowed.balance; negative = the u128
\* subtraction panics
available_amount(asset) ==
    asset.supplied.balance + asset.reserved - asset.borrowed.balance

-----------------------------------------------------------------------------
(* The invocation context.                                                 *)
(*   failed      a panic happened; the host reverts the invocation         *)
(*   assets, accounts, asset_farms, inactive_rewards, last_prices, config, *)
(*   ft          the persisted collections as written so far               *)
(*   cache       the ASSETS static: token -> Asset, for listed tokens      *)
(*   farm_cache  the ASSET_FARMS static                                    *)
(*   mem         the in-memory Account values of the invocation, by role   *)
(*   aa          the AccountAsset local of the running action              *)
(*   ret, ret2   return values of the last internal call                   *)
(*   sent        ft_transfer promises created by the invocation            *)
(*   log         observations of the applied operations                    *)

Fail(ctx) == [ctx EXCEPT !.failed = TRUE]

\* assert!(cond): continue with `next` when cond holds, panic otherwise
Require(ctx, cond) == IF cond THEN ctx ELSE Fail(ctx)

Log(ctx, rec) == [ctx EXCEPT !.log = Append(@, rec)]

\* one access to an asset: "load" = taken from the persisted assets and
\* compounded, "read" = returned by internal_get_asset, "write" = given to
\* internal_set_asset; asset is the value loaded, returned or stored
AssetOp(ctx, op, token_id, asset) ==
    [ctx EXCEPT !.asset_ops =
        Append(@, [op |-> op, token_id |-> token_id, asset |-> asset])]

\* internal_get_asset without the ASSETS cache: every read loads the
\* persisted asset and compounds it
internal_get_asset_uncached(ctx, token_id) ==
    IF token_id \notin DOMAIN ctx.assets THEN ctx
    ELSE LET asset == asset_update(ctx.assets[token_id], token_id, ctx.now)
         IN AssetOp(AssetOp([ctx EXCEPT !.cache = MapInsert(@, token_id, asset)],
                            "load", token_id, asset),
                    "read", token_id, asset)

\* internal_get_asset: read through the ASSETS cache; a miss loads the
\* persisted asset and compounds it to the current block timestamp
internal_get_asset(ctx, token_id) ==
    IF token_id \in DOMAIN ctx.cache
    THEN AssetOp(ctx, "read", token_id, ctx.cache[token_id])
    ELSE IF token_id \notin DOMAIN ctx.assets THEN ctx
    ELSE LET asset == asset_update(ctx.assets[token_id], token_id, ctx.now)
         IN AssetOp(AssetOp([ctx EXCEPT !.cache = MapInsert(@, token_id, asset)],
                            "load", token_id, asset),
                    "read", token_id, asset)

\* internal_unwrap_asset: the context after the read (failed when the asset
\* is not listed); the value read is CachedAsset(ctx', token_id)
internal_unwrap_asset(ctx, token_id) ==
    IF ctx.failed THEN ctx
    ELSE IF token_id \in DOMAIN ctx.assets THEN internal_get_asset(ctx, token_id)
    ELSE Fail(ctx)

CachedAsset(ctx, token_id) == ctx.cache[token_id]

\* internal_set_asset with the checks made first and a sweep that does not
\* look at the shares: the supplied balance always goes to the reserve
internal_set_asset_sweeping(ctx, token_id, asset) ==
    IF ctx.failed THEN ctx
    ELSE IF asset.supplied.balance < asset.supplied.shares THEN Fail(ctx)
    ELSE IF asset.borrowed.balance < asset.borrowed.shares THEN Fail(ctx)
    ELSE [ctx EXCEPT
             !.cache = MapInsert(@, token_id,
                 [asset EXCEPT !.reserved = @ + asset.supplied.balance,
                               !.supplied.balance = 0]),
             !.assets = MapInsert(@, token_id,
                 [asset EXCEPT !.reserved = @ + asset.supplied.balance,
                               !.supplied.balance = 0])]

\* no sweep: the asset is written as it is
sweep_supplied_skipped(asset) == asset

\* the sweep of internal_set_asset: a supplied pool without shares gives
\* its balance to the reserve
sweep_supplied(asset) ==
    IF asset.supplied.shares = 0 /\ asset.supplied.balance > 0
    THEN [asset EXCEPT !.reserved = @ + asset.supplied.balance,
                       !.supplied.balance = 0]
    ELSE asset

\* the asserts of internal_set_asset and the write
write_asset(ctx, token_id, asset) ==
    IF ctx.failed THEN ctx
    ELSE IF ~(asset.borrowed.shares > 0 \/ asset.borrowed.balance = 0) THEN Fail(ctx)
    ELSE IF ~assert_invariant(asset.supplied) THEN Fail(ctx)
    ELSE IF ~assert_invariant(asset.borrowed) THEN Fail(ctx)
    ELSE AssetOp([ctx EXCEPT !.cache = MapInsert(@, token_id, asset),
                             !.assets = MapInsert(@, token_id, asset)],
                 "write", token_id, asset)

internal_set_asset(ctx, token_id, asset) ==
    write_asset(ctx, token_id, sweep_supplied(asset))

-----------------------------------------------------------------------------
(* account.rs, account_asset.rs *)

SuppliedFarm(token_id) == <<"Supplied", token_id>>
BorrowedFarm(token_id) == <<"Borrowed", token_id>>
NetTvlFarm == <<"NetTvl", "">>
FarmIds == {SuppliedFarm(t) : t \in Tokens} \cup {BorrowedFarm(t) : t \in Tokens}
           \cup {NetTvlFarm}

NewAccount ==
    [supplied |-> EmptyMap, collateral |-> EmptyMap, borrowed |-> EmptyMap,
     farms |-> EmptyMap, affected_farms |-> {}, booster_staking |-> None]

add_affected_farm(account, farm_id) ==
    [account EXCEPT !.affected_farms = @ \cup {farm_id}]

\* a pledge that replaces the pledged shares of the token
increase_collateral_replacing(account, token_id, shares) ==
    [account EXCEPT !.collateral = MapInsert(@, token_id, shares)]

increase_collateral(account, token_id, shares) ==
    [account EXCEPT !.collateral =
        MapInsert(@, token_id, MapGet(@, token_id, 0) + shares)]

\* a check that only looks for the entry of the token
decrease_collateral_ok_unchecked(account, token_id, shares) ==
    token_id \in DOMAIN account.collateral

\* panics when the token is not pledged or fewer shares are pledged
decrease_collateral_ok(account, token_id, shares) ==
    token_id \in DOMAIN account.collateral /\ account.collateral[token_id] >= shares

decrease_collateral(account, token_id, shares) ==
    LET new_balance == account.collateral[token_id] - shares
    IN IF new_balance > 0
       THEN [account EXCEPT !.collateral = MapInsert(@, token_id, new_balance)]
       ELSE [account EXCEPT !.collateral = MapRemove(@, token_id)]

increase_borrowed(account, token_id, shares) ==
    [account EXCEPT !.borrowed =
        MapInsert(@, token_id, MapGet(@, token_id, 0) + shares)]

decrease_borrowed_ok(account, token_id, shares) ==
    token_id \in DOMAIN account.borrowed /\ account.borrowed[token_id] >= shares

decrease_borrowed(account, token_id, shares) ==
    LET new_balance == account.borrowed[token_id] - shares
    IN IF new_balance > 0
       THEN [account EXCEPT !.borrowed = MapInsert(@, token_id, new_balance)]
       ELSE [account EXCEPT !.borrowed = MapRemove(@, token_id)]

get_all_potential_farms(account) ==
    {NetTvlFarm}
    \cup {SuppliedFarm(t) : t \in DOMAIN account.supplied}
    \cup {SuppliedFarm(t) : t \in DOMAIN account.collateral}
    \cup {BorrowedFarm(t) : t \in DOMAIN account.borrowed}

get_supplied_shares(account, token_id) ==
    MapGet(account.collateral, token_id, 0) + MapGet(account.supplied, token_id, 0)

get_borrowed_shares(account, token_id) == MapGet(account.borrowed, token_id, 0)

\* Account::internal_get_asset_or_default(..).shares
account_asset_or_default(account, token_id) == MapGet(account.supplied, token_id, 0)

\* an internal_set_asset that inserts the entry whatever the shares
account_set_asset_keeping(account, token_id, shares) ==
    add_affected_farm([account EXCEPT !.supplied = MapInsert(@, token_id, shares)],
                      SuppliedFarm(token_id))

\* Account::internal_set_asset with an AccountAsset of `shares`
account_set_asset(account, token_id, shares) ==
    add_affected_farm(
        IF shares = 0
        THEN [account EXCEPT !.supplied = MapRemove(@, token_id)]
        ELSE [account EXCEPT !.supplied = MapInsert(@, token_id, shares)],
        SuppliedFarm(token_id))

\* Burrow::internal_unwrap_account: a copy of the persisted account; the
\* affected_farms field is not serialized and starts empty
internal_unwrap_account(ctx, who, account_id) ==
    IF ctx.failed THEN ctx
    ELSE IF account_id \in DOMAIN ctx.accounts
    THEN [ctx EXCEPT !.mem = MapInsert(@, who, ctx.accounts[account_id])]
    ELSE Fail(ctx)

\* Burrow::internal_set_account (storage accounting is not modelled)
internal_set_account(ctx, account_id, who) ==
    IF ctx.failed THEN ctx
    ELSE
    [ctx EXCEPT !.accounts =
        MapInsert(@, account_id, [ctx.mem[who] EXCEPT !.affected_farms = {}])]

-----------------------------------------------------------------------------
(* actions.rs: sizing helper *)

\* AssetAmount = [token_id, amount : Option, max_amount : Option]
AssetAmountNew(token_id, amount) ==
    [token_id |-> token_id, amount |-> Some(amount), max_amount |-> None]

\* asset_amount_to_shares: [ok, shares, amount]; ok = FALSE is a panic
asset_amount_to_shares(pool, available_shares, asset_amount, round_up) ==
    IF IsSome(asset_amount.amount)
    THEN LET amount == Unwrap(asset_amount.amount)
             shares == amount_to_shares(pool, amount, ~round_up)
         IN [ok |-> shares > 0 /\ amount > 0, shares |-> shares, amount |-> amount]
    ELSE IF IsSome(asset_amount.max_amount)
    THEN LET max_amount == Unwrap(asset_amount.max_amount)
             shares == Min(available_shares,
                           amount_to_shares(pool, max_amount, ~round_up))
             amount == Min(shares_to_amount(pool, shares, round_up), max_amount)
         IN [ok |-> shares_to_amount_ok(pool, shares) /\ shares > 0 /\ amount > 0,
             shares |-> shares, amount |-> amount]
    ELSE LET amount == shares_to_amount(pool, available_shares, round_up)
         IN [ok |-> shares_to_amount_ok(pool, available_shares)
                    /\ available_shares > 0 /\ amount > 0,
             shares |-> available_shares, amount |-> amount]

-----------------------------------------------------------------------------
(* actions.rs: internal operations.  `who` names the in-memory account the *)
(* operation is applied to.                                                *)

\* each operation reads the asset first; `<operation>_on` is the rest of the
\* operation, on the context c after the read

deposit_log(token_id, amount, shares, asset) ==
    [op |-> "deposit", token_id |-> token_id, amount |-> amount,
     shares |-> shares, pool |-> asset.supplied,
     asset |-> asset]

internal_deposit_apply(c, who, token_id, amount, asset, shares) ==
    Log(internal_set_asset(
            [c EXCEPT !.mem[who] =
                          account_set_asset(@, token_id,
                              account_asset_or_default(@, token_id) + shares),
                      !.ret = shares],
            token_id,
            [asset EXCEPT !.supplied = pool_deposit(@, shares, amount)]),
        deposit_log(token_id, amount, shares, asset))

internal_deposit_on(c, who, token_id, amount) ==
    IF c.failed THEN c
    ELSE internal_deposit_apply(c, who, token_id, amount, CachedAsset(c, token_id),
             amount_to_shares(CachedAsset(c, token_id).supplied, amount, FALSE))

internal_deposit(ctx, who, token_id, amount) ==
    internal_deposit_on(internal_unwrap_asset(ctx, token_id), who, token_id, amount)

withdraw_log(token_id, r, asset) ==
    [op |-> "withdraw", token_id |-> token_id, amount |-> r.amount,
     shares |-> r.shares, pool |-> asset.supplied,
     asset |-> asset]

\* assert!(amount <= available_amount()); a negative available amount is the
\* panic of the u128 subtraction in available_amount
withdraw_available(asset, amount) ==
    available_amount(asset) >= 0 /\ amount <= available_amount(asset)

internal_withdraw_apply(c, who, token_id, asset, account_asset, r) ==
    IF ~r.ok THEN Fail(c)
    ELSE IF ~withdraw_available(asset, r.amount) THEN Fail(c)
    ELSE IF account_asset < r.shares THEN Fail(c)
    ELSE IF ~pool_withdraw_ok(asset.supplied, r.shares, r.amount) THEN Fail(c)
    ELSE Log(internal_set_asset(
                 [c EXCEPT !.mem[who] =
                               account_set_asset(@, token_id, account_asset - r.shares),
                           !.ret = r.amount],
                 token_id,
                 [asset EXCEPT !.supplied = pool_withdraw(@, r.shares, r.amount)]),
             withdraw_log(token_id, r, asset))

internal_withdraw_on(c, who, asset_amount, token_id) ==
    IF c.failed THEN c
    ELSE IF ~CachedAsset(c, token_id).config.can_withdraw THEN Fail(c)
    ELSE IF token_id \notin DOMAIN c.mem[who].supplied THEN Fail(c)
    ELSE internal_withdraw_apply(c, who, token_id, CachedAsset(c, token_id),
             c.mem[who].supplied[token_id],
             asset_amount_to_shares(CachedAsset(c, token_id).supplied,
                                    c.mem[who].supplied[token_id],
                                    asset_amount, FALSE))

internal_withdraw(ctx, who, asset_amount) ==
    internal_withdraw_on(internal_unwrap_asset(ctx, asset_amount.token_id),
                         who, asset_amount, asset_amount.token_id)

internal_increase_collateral_apply(c, who, token_id, account_asset, r) ==
    IF ~r.ok THEN Fail(c)
    ELSE IF account_asset < r.shares THEN Fail(c)
    ELSE [c EXCEPT !.mem[who] =
                       increase_collateral(
                           account_set_asset(@, token_id, account_asset - r.shares),
                           token_id, r.shares),
                   !.ret = r.amount]

internal_increase_collateral_on(c, who, asset_amount, token_id) ==
    IF c.failed THEN c
    ELSE IF ~CachedAsset(c, token_id).config.can_use_as_collateral THEN Fail(c)
    ELSE IF token_id \notin DOMAIN c.mem[who].supplied THEN Fail(c)
    ELSE internal_increase_collateral_apply(c, who, token_id,
             c.mem[who].supplied[token_id],
             asset_amount_to_shares(CachedAsset(c, token_id).supplied,
                                    c.mem[who].supplied[token_id],
                                    asset_amount, FALSE))

internal_increase_collateral(ctx, who, asset_amount) ==
    internal_increase_collateral_on(internal_unwrap_asset(ctx, asset_amount.token_id),
                                    who, asset_amount, asset_amount.token_id)

internal_decrease_collateral_apply(c, who, token_id, r) ==
    IF ~r.ok THEN Fail(c)
    ELSE IF ~decrease_collateral_ok(c.mem[who], token_id, r.shares) THEN Fail(c)
    ELSE [c EXCEPT !.mem[who] = decrease_collateral(@, token_id, r.shares),
                   !.aa = @ + r.shares,
                   !.ret = r.amount]

\* works on the AccountAsset local ctx.aa of the receiving account
internal_decrease_collateral_on(c, who, asset_amount, token_id) ==
    IF c.failed THEN c
    ELSE IF token_id \notin DOMAIN c.mem[who].collateral THEN Fail(c)
    ELSE internal_decrease_collateral_apply(c, who, token_id,
             asset_amount_to_shares(CachedAsset(c, token_id).supplied,
                                    c.mem[who].collateral[token_id],
                                    asset_amount, FALSE))

internal_decrease_collateral(ctx, who, asset_amount) ==
    internal_decrease_collateral_on(internal_unwrap_asset(ctx, asset_amount.token_id),
                                    who, asset_amount, asset_amount.token_id)

borrow_log(token_id, r, asset) ==
    [op |-> "borrow", token_id |-> token_id, amount |-> r.amount,
     shares |-> r.shares, pool |-> asset.borrowed,
     asset |-> asset]

\* internal_borrow without its assert on the available amount
borrow_unchecked(asset, amount) == TRUE

\* assert!(amount <= available_amount) of internal_borrow
borrow_available(asset, amount) == amount <= available_amount(asset)

\* a borrow that mints the amount instead of lending the supplied one
internal_borrow_write_minted(c, who, token_id, asset, r, supplied_shares) ==
    Log([internal_set_asset(c, token_id,
             [asset EXCEPT !.borrowed = pool_deposit(@, r.shares, r.amount)])
            EXCEPT !.mem[who] = increase_borrowed(@, token_id, r.shares),
                   !.ret = r.amount],
        borrow_log(token_id, r, asset))

internal_borrow_write(c, who, token_id, asset, r, supplied_shares) ==
    Log([internal_set_asset(c, token_id,
             [asset EXCEPT !.borrowed = pool_deposit(@, r.shares, r.amount),
                           !.supplied = pool_deposit(@, supplied_shares, r.amount)])
            EXCEPT !.mem[who] =
                       account_set_asset(
                           increase_borrowed(@, token_id, r.shares), token_id,
                           account_asset_or_default(@, token_id) + supplied_shares),
                   !.ret = r.amount],
        borrow_log(token_id, r, asset))

internal_borrow_apply(c, who, token_id, asset, r) ==
    IF ~r.ok THEN Fail(c)
    ELSE IF ~borrow_available(asset, r.amount) THEN Fail(c)
    ELSE internal_borrow_write(c, who, token_id, asset, r,
                               amount_to_shares(asset.supplied, r.amount, FALSE))

internal_borrow_on(c, who, asset_amount, token_id) ==
    IF c.failed THEN c
    ELSE IF ~CachedAsset(c, token_id).config.can_borrow THEN Fail(c)
    ELSE IF available_amount(CachedAsset(c, token_id)) < 0 THEN Fail(c)
    ELSE internal_borrow_apply(c, who, token_id, CachedAsset(c, token_id),
             asset_amount_to_shares(
                 CachedAsset(c, token_id).borrowed,
                 amount_to_shares(CachedAsset(c, token_id).borrowed,
                                  available_amount(CachedAsset(c, token_id)), FALSE),
                 asset_amount, TRUE))

internal_borrow(ctx, who, asset_amount) ==
    internal_borrow_on(internal_unwrap_asset(ctx, asset_amount.token_id),
                       who, asset_amount, asset_amount.token_id)

repay_log(token_id, z, asset) ==
    [op |-> "repay", token_id |-> token_id, amount |-> z.amount,
     shares |-> z.borrowed_shares, pool |-> asset.borrowed,
     asset |-> asset]

\* a clamp that accepts less than the exact amount asked for
repay_clamped_below_amount(asset, asset_amount, available_borrowed_shares, supplied_shares, amount, borrowed_shares) ==
    [ok |-> /\ shares_to_amount_ok(asset.supplied, supplied_shares)
            /\ amount > 0
            /\ borrowed_shares > 0
            /\ borrowed_shares <= available_borrowed_shares,
     supplied_shares |-> supplied_shares, amount |-> amount,
     borrowed_shares |-> borrowed_shares]

\* the clamp of internal_repay to the payer's supplied shares:
\* [ok, supplied_shares, amount, borrowed_shares]
repay_clamped(asset, asset_amount, available_borrowed_shares, supplied_shares, amount, borrowed_shares) ==
    [ok |-> /\ shares_to_amount_ok(asset.supplied, supplied_shares)
            /\ (IsSome(asset_amount.amount) => amount >= Unwrap(asset_amount.amount))
            /\ amount > 0
            /\ borrowed_shares > 0
            /\ borrowed_shares <= available_borrowed_shares,
     supplied_shares |-> supplied_shares, amount |-> amount,
     borrowed_shares |-> borrowed_shares]

repay_clamp_amount(asset, asset_amount, available_borrowed_shares, supplied_shares, amount) ==
    repay_clamped(asset, asset_amount, available_borrowed_shares, supplied_shares,
                  amount, amount_to_shares(asset.borrowed, amount, FALSE))

repay_clamp(asset, asset_amount, available_borrowed_shares, payer_shares, r, supplied_shares) ==
    IF supplied_shares > payer_shares
    THEN repay_clamp_amount(asset, asset_amount, available_borrowed_shares,
             payer_shares, shares_to_amount(asset.supplied, payer_shares, FALSE))
    ELSE [ok |-> TRUE, supplied_shares |-> supplied_shares, amount |-> r.amount,
          borrowed_shares |-> r.shares]

internal_repay_write(c, who, token_id, asset, z) ==
    IF c.failed THEN c
    ELSE IF ~decrease_borrowed_ok(c.mem[who], token_id, z.borrowed_shares) THEN Fail(c)
    ELSE IF c.aa < z.supplied_shares THEN Fail(c)
    ELSE Log([c EXCEPT !.mem[who] = decrease_borrowed(@, token_id, z.borrowed_shares),
                       !.aa = @ - z.supplied_shares,
                       !.ret = z.amount],
             repay_log(token_id, z, asset))

internal_repay_sized(c, who, token_id, asset, z) ==
    IF ~z.ok THEN Fail(c)
    ELSE IF ~pool_withdraw_ok(asset.supplied, z.supplied_shares, z.amount) THEN Fail(c)
    ELSE IF ~pool_withdraw_ok(asset.borrowed, z.borrowed_shares, z.amount) THEN Fail(c)
    ELSE internal_repay_write(
             internal_set_asset(c, token_id,
                 [asset EXCEPT
                     !.supplied = pool_withdraw(@, z.supplied_shares, z.amount),
                     !.borrowed = pool_withdraw(@, z.borrowed_shares, z.amount)]),
             who, token_id, asset, z)

internal_repay_apply(c, who, asset_amount, token_id, asset, r) ==
    IF ~r.ok THEN Fail(c)
    ELSE internal_repay_sized(c, who, token_id, asset,
             repay_clamp(asset, asset_amount, c.mem[who].borrowed[token_id], c.aa, r,
                         amount_to_shares(asset.supplied, r.amount, TRUE)))

\* works on the AccountAsset local ctx.aa of the paying account; `who` is the
\* account whose debt is repaid
internal_repay_on(c, who, asset_amount, token_id) ==
    IF c.failed THEN c
    ELSE IF token_id \notin DOMAIN c.mem[who].borrowed THEN Fail(c)
    ELSE internal_repay_apply(c, who, asset_amount, token_id, CachedAsset(c, token_id),
             asset_amount_to_shares(CachedAsset(c, token_id).borrowed,
                                    c.mem[who].borrowed[token_id],
                                    asset_amount, TRUE))

internal_repay(ctx, who, asset_amount) ==
    internal_repay_on(internal_unwrap_asset(ctx, asset_amount.token_id),
                      who, asset_amount, asset_amount.token_id)

-----------------------------------------------------------------------------
(* asset_farm.rs.  AssetFarm = [block_timestamp, rewards]; the farm's      *)
(* inactive_rewards LookupMap lives in contract storage under the farm's  *)
(* prefix and is written through: ctx.inactive_rewards[farm_id].           *)

\* Time is counted in nanoseconds; every timestamp of the model is a
\* multiple of TICK_NANOS, so the day ratio is computed on tick counts.
TICK_NANOS == 500000
NANOS_PER_DAY_TICKS == 172800000

\* u128_ratio(reward_per_day, time_diff, NANOS_PER_DAY)
farm_time_ratio(reward_per_day, time_diff) ==
    (reward_per_day * (time_diff \div TICK_NANOS)) \div NANOS_PER_DAY_TICKS

NewAssetFarmReward ==
    [reward_per_day |-> 0, booster_log_base |-> 0, remaining_rewards |-> 0,
     boosted_shares |-> 0, reward_per_share |-> bd_zero]

farm_reward_update(reward, time_diff) ==
    IF reward.boosted_shares = 0 THEN reward
    ELSE LET acquired_rewards ==
                 Min(reward.remaining_rewards,
                     farm_time_ratio(reward.reward_per_day, time_diff))
         IN [reward EXCEPT
               !.remaining_rewards = @ - acquired_rewards,
               !.reward_per_share =
                   @ + bd_div(bd_from(acquired_rewards), bd_from(reward.boosted_shares))]

FarmInactive(ctx, farm_id) == MapGet(ctx.inactive_rewards, farm_id, EmptyMap)

\* an update that leaves a reward that ran out in the active map
asset_farm_update_keeping(ctx, farm_id, farm, is_view) ==
    IF ctx.now = farm.block_timestamp
    THEN [ctx |-> ctx, farm |-> farm]
    ELSE [ctx |-> ctx,
          farm |-> [block_timestamp |-> ctx.now,
                    rewards |-> [t \in DOMAIN farm.rewards |->
                                    farm_reward_update(farm.rewards[t],
                                        ctx.now - farm.block_timestamp)]]]

\* AssetFarm::update applied to the farm loaded for farm_id
asset_farm_update(ctx, farm_id, farm, is_view) ==
    IF ctx.now = farm.block_timestamp
    THEN [ctx |-> ctx, farm |-> farm]
    ELSE
    LET time_diff == ctx.now - farm.block_timestamp
        updated == [t \in DOMAIN farm.rewards |->
                        farm_reward_update(farm.rewards[t], time_diff)]
        new_inactive == {t \in DOMAIN farm.rewards :
                            /\ farm.rewards[t].boosted_shares # 0
                            /\ updated[t].remaining_rewards = 0}
        moved == IF is_view THEN {} ELSE new_inactive
        old_inactive == FarmInactive(ctx, farm_id)
    IN [ctx |-> IF moved = {} THEN ctx
                ELSE [ctx EXCEPT !.inactive_rewards =
                         MapInsert(@, farm_id,
                             [t \in (DOMAIN old_inactive) \cup moved |->
                                 IF t \in moved THEN updated[t] ELSE old_inactive[t]])],
        farm |-> [block_timestamp |-> ctx.now,
                  rewards |-> [t \in (DOMAIN farm.rewards) \ moved |-> updated[t]]]]

\* internal_get_asset_farm: read through the ASSET_FARMS cache
internal_get_asset_farm(ctx, farm_id, is_view) ==
    IF farm_id \in DOMAIN ctx.farm_cache \/ farm_id \notin DOMAIN ctx.asset_farms
    THEN ctx
    ELSE LET u == asset_farm_update(ctx, farm_id, ctx.asset_farms[farm_id], is_view)
         IN [u.ctx EXCEPT !.farm_cache = MapInsert(@, farm_id, u.farm)]

internal_set_asset_farm(ctx, farm_id, asset_farm) ==
    [ctx EXCEPT !.farm_cache = MapInsert(@, farm_id, asset_farm),
                !.asset_farms = MapInsert(@, farm_id, asset_farm)]

-----------------------------------------------------------------------------
(* account_farm.rs *)

\* scaled to the token unit of the model (one unit = 10^18 base units)
NET_TVL_SHARES_DIVISOR == 1

NewAccountFarm == [block_timestamp |-> 0, rewards |-> EmptyMap]

\* internal_account_farm_claim:
\*   [ok, account_farm, new_rewards : token -> amount,
\*    inactive_rewards : token -> boosted shares]
internal_account_farm_claim(account, farm_id, asset_farm, inactive, block_timestamp) ==
    LET account_farm == MapGet(account.farms, farm_id, NewAccountFarm)
    IN IF account_farm.block_timestamp = block_timestamp
       THEN [ok |-> TRUE, account_farm |-> account_farm,
             new_rewards |-> EmptyMap, inactive_rewards |-> EmptyMap]
       ELSE
       LET old_rewards == account_farm.rewards
           active == DOMAIN asset_farm.rewards
           gone == (DOMAIN old_rewards) \ active
           diff(t) == IF t \in active
                      THEN asset_farm.rewards[t].reward_per_share
                           - old_rewards[t].last_reward_per_share
                      ELSE inactive[t].reward_per_share
                           - old_rewards[t].last_reward_per_share
           amount(t) == bd_round_mul_u128(diff(t), old_rewards[t].boosted_shares)
           ok == /\ \A t \in gone : t \in DOMAIN inactive
                 /\ \A t \in DOMAIN old_rewards : diff(t) >= 0
       IN IF ~ok
          THEN [ok |-> FALSE, account_farm |-> account_farm,
                new_rewards |-> EmptyMap, inactive_rewards |-> EmptyMap]
          ELSE
          [ok |-> TRUE,
           account_farm |->
               [block_timestamp |-> block_timestamp,
                rewards |-> [t \in active |->
                    [boosted_shares |-> IF t \in DOMAIN old_rewards
                                        THEN old_rewards[t].boosted_shares ELSE 0,
                     last_reward_per_share |-> asset_farm.rewards[t].reward_per_share]]],
           new_rewards |->
               [t \in {x \in DOMAIN old_rewards : amount(x) > 0} |-> amount(t)],
           inactive_rewards |-> [t \in gone |-> old_rewards[t].boosted_shares]]

RECURSIVE ilog(_, _)
\* integer part of the logarithm of x to the base b (b > 1, x >= 1)
ilog(b, x) == IF x < b THEN 0 ELSE 1 + ilog(b, x \div b)

\* (shares as f64 * (booster_balance / booster_base).log(log_base)) as u128,
\* on the integer part of the logarithm
booster_extra_shares(shares, booster_log_base, booster_balance, booster_base) ==
    IF booster_log_base > 0 /\ booster_balance > booster_base
    THEN IF booster_log_base <= booster_base THEN 0
         ELSE shares * ilog(booster_log_base \div booster_base,
                            booster_balance \div booster_base)
    ELSE 0

\* supplied (or borrowed) value of one token in the Net TVL sum
net_tvl_value(pool, shares, round_up, price, asset_config) ==
    IF shares > 0
    THEN bd_mul_ratio(
             bd_from_balance_price(shares_to_amount(pool, shares, round_up),
                                   price, asset_config.extra_decimals),
             asset_config.net_tvl_multiplier)
    ELSE 0

net_tvl_total_supplied(ctx, account, priced) ==
    SumOver(priced,
        [t \in priced |->
            net_tvl_value(ctx.cache[t].supplied, get_supplied_shares(account, t),
                          FALSE, ctx.last_prices[t], ctx.cache[t].config)])

net_tvl_total_borrowed(ctx, account, priced) ==
    SumOver(priced,
        [t \in priced |->
            net_tvl_value(ctx.cache[t].borrowed, get_borrowed_shares(account, t),
                          TRUE, ctx.last_prices[t], ctx.cache[t].config)])

net_tvl_net(total_supplied, total_borrowed) ==
    IF total_supplied > total_borrowed
    THEN bd_round_mul_u128(total_supplied - total_borrowed, NET_TVL_SHARES_DIVISOR)
    ELSE 0

RECURSIVE load_assets(_, _)
\* internal_unwrap_asset for every token of S
load_assets(ctx, S) ==
    IF ctx.failed \/ S = {} THEN ctx
    ELSE load_assets(internal_unwrap_asset(ctx, CHOOSE x \in S : TRUE),
                     S \ {CHOOSE x \in S : TRUE})

\* The first loop of internal_account_apply_affected_farms.  The work list
\* farms_ids is the sequence todo: the loop pops its last element and pushes
\* at its end.  The locals of the pass live in the context: ctx.all_rewards
\* (token -> amount), ctx.claimed_farms, the claimed farms
\* [farm_id, account_farm, asset_farm, inactive_rewards], and ctx.claims, the
\* farm ids in the order they were claimed.
RECURSIVE claim_farms(_, _, _)

claim_farm_push(c, who, todo, farm_id, asset_farm, cl, pushed) ==
    claim_farms(
        [c EXCEPT
            !.mem[who].affected_farms = @ \cup pushed,
            !.all_rewards =
                [t \in (DOMAIN @) \cup (DOMAIN cl.new_rewards) |->
                    MapGet(@, t, 0) + MapGet(cl.new_rewards, t, 0)],
            !.claimed_farms = @ \cup
                {[farm_id |-> farm_id, account_farm |-> cl.account_farm,
                  asset_farm |-> asset_farm,
                  inactive_rewards |-> cl.inactive_rewards]},
            !.claims = Append(@, farm_id)],
        who, todo \o SeqOf(pushed))

claim_farm_claimed(c, who, todo, farm_id, asset_farm, cl) ==
    IF ~cl.ok THEN Fail(c)
    ELSE claim_farm_push(c, who, todo, farm_id, asset_farm, cl,
             {SuppliedFarm(t) : t \in DOMAIN cl.new_rewards}
             \ c.mem[who].affected_farms)

claim_farm_on(c, who, todo, farm_id) ==
    IF farm_id \notin DOMAIN c.farm_cache
    THEN claim_farms(c, who, todo)
    ELSE claim_farm_claimed(c, who, todo, farm_id, c.farm_cache[farm_id],
             internal_account_farm_claim(c.mem[who], farm_id, c.farm_cache[farm_id],
                                         FarmInactive(c, farm_id), c.now))

claim_farm(ctx, who, todo, farm_id) ==
    claim_farm_on(internal_get_asset_farm(ctx, farm_id, FALSE), who, todo, farm_id)

claim_farms(ctx, who, todo) ==
    IF ctx.failed \/ todo = << >> THEN ctx
    ELSE claim_farm(ctx, who, SubSeq(todo, 1, Len(todo) - 1), todo[Len(todo)])

RECURSIVE deposit_rewards(_, _, _)
deposit_rewards(ctx, who, rewards) ==
    IF ctx.failed \/ DOMAIN rewards = {} THEN ctx
    ELSE deposit_rewards(
             internal_deposit(ctx, who, CHOOSE x \in DOMAIN rewards : TRUE,
                              rewards[CHOOSE x \in DOMAIN rewards : TRUE]),
             who, MapRemove(rewards, CHOOSE x \in DOMAIN rewards : TRUE))

\* the tokens the Net TVL loop reads: priced and held or owed by the account
net_tvl_tokens(ctx, account) ==
    {t \in DOMAIN ctx.last_prices :
        get_supplied_shares(account, t) > 0 \/ get_borrowed_shares(account, t) > 0}

\* the conversions of the Net TVL loop do not panic
net_tvl_ok(c, account) ==
    \A t \in net_tvl_tokens(c, account) :
        /\ shares_to_amount_ok(c.cache[t].supplied, get_supplied_shares(account, t))
        /\ shares_to_amount_ok(c.cache[t].borrowed, get_borrowed_shares(account, t))

\* the Net TVL position size of an account
net_tvl_shares(ctx, account) ==
    net_tvl_net(net_tvl_total_supplied(ctx, account, net_tvl_tokens(ctx, account)),
                net_tvl_total_borrowed(ctx, account, net_tvl_tokens(ctx, account)))

\* the unwraps and subtractions of the second loop do not panic
settle_farm_ok(c, f) ==
    /\ \A t \in DOMAIN f.asset_farm.rewards : t \in DOMAIN f.account_farm.rewards
    /\ \A t \in DOMAIN f.asset_farm.rewards :
          f.asset_farm.rewards[t].boosted_shares
              >= f.account_farm.rewards[t].boosted_shares
    /\ \A t \in DOMAIN f.inactive_rewards :
          /\ t \in DOMAIN FarmInactive(c, f.farm_id)
          /\ FarmInactive(c, f.farm_id)[t].boosted_shares >= f.inactive_rewards[t]

\* the boosted shares of the account for one reward of the farm
new_boosted_shares(f, t, shares, booster_balance, booster_base) ==
    IF shares > 0
    THEN shares + booster_extra_shares(shares,
                      f.asset_farm.rewards[t].booster_log_base,
                      booster_balance, booster_base)
    ELSE f.account_farm.rewards[t].boosted_shares

settle_account_farm(f, shares, booster_balance, booster_base) ==
    [f.account_farm EXCEPT !.rewards =
        [t \in DOMAIN f.asset_farm.rewards |->
            [@[t] EXCEPT !.boosted_shares =
                new_boosted_shares(f, t, shares, booster_balance, booster_base)]]]

\* a farm total that adds the new boosted shares of the account without
\* taking its old ones out
settle_asset_farm_accumulating(f, shares, booster_balance, booster_base) ==
    [f.asset_farm EXCEPT !.rewards =
        [t \in DOMAIN f.asset_farm.rewards |->
            [@[t] EXCEPT !.boosted_shares =
                @ + (IF shares > 0
                     THEN new_boosted_shares(f, t, shares, booster_balance, booster_base)
                     ELSE 0)]]]

settle_asset_farm(f, shares, booster_balance, booster_base) ==
    [f.asset_farm EXCEPT !.rewards =
        [t \in DOMAIN f.asset_farm.rewards |->
            [@[t] EXCEPT !.boosted_shares =
                @ - f.account_farm.rewards[t].boosted_shares
                + (IF shares > 0
                   THEN new_boosted_shares(f, t, shares, booster_balance, booster_base)
                   ELSE 0)]]]

\* a settlement that leaves the inactive rewards of the farm as they are
settle_inactive_kept(c, f) == c

settle_inactive(c, f) ==
    IF DOMAIN f.inactive_rewards = {} THEN c
    ELSE [c EXCEPT !.inactive_rewards =
             MapInsert(@, f.farm_id,
                 [t \in DOMAIN FarmInactive(c, f.farm_id) |->
                     IF t \in DOMAIN f.inactive_rewards
                     THEN [FarmInactive(c, f.farm_id)[t] EXCEPT !.boosted_shares =
                              @ - f.inactive_rewards[t]]
                     ELSE FarmInactive(c, f.farm_id)[t]])]

settle_farm_write(c, who, f, shares, booster_balance, booster_base) ==
    IF ~settle_farm_ok(c, f) THEN Fail(c)
    ELSE [internal_set_asset_farm(settle_inactive(c, f), f.farm_id,
              settle_asset_farm(f, shares, booster_balance, booster_base))
             EXCEPT !.mem[who].farms =
                        IF shares > 0
                        THEN MapInsert(@, f.farm_id,
                                 settle_account_farm(f, shares, booster_balance,
                                                     booster_base))
                        ELSE MapRemove(@, f.farm_id),
                    !.settled = @ \cup {<<who, f.farm_id>>}]

settle_farm_net_tvl(c, who, f, booster_balance, booster_base) ==
    IF c.failed THEN c
    ELSE IF ~net_tvl_ok(c, c.mem[who]) THEN Fail(c)
    ELSE settle_farm_write(c, who, f, net_tvl_shares(c, c.mem[who]),
                           booster_balance, booster_base)

\* a second loop that sizes the farms by the account as the pass found it,
\* before the claimed rewards were deposited
settle_farm_before_rewards(ctx, who, f, booster_balance, booster_base) ==
    IF f.farm_id[1] = "Supplied"
    THEN settle_farm_write(ctx, who, f,
             get_supplied_shares(ctx.passes[Len(ctx.passes)].account, f.farm_id[2]),
             booster_balance, booster_base)
    ELSE IF f.farm_id[1] = "Borrowed"
    THEN settle_farm_write(ctx, who, f,
             get_borrowed_shares(ctx.passes[Len(ctx.passes)].account, f.farm_id[2]),
             booster_balance, booster_base)
    ELSE settle_farm_net_tvl(load_assets(ctx, net_tvl_tokens(ctx, ctx.mem[who])),
                             who, f, booster_balance, booster_base)

\* one iteration of the second loop: the boosted shares of one claimed farm
settle_farm(ctx, who, f, booster_balance, booster_base) ==
    IF f.farm_id[1] = "Supplied"
    THEN settle_farm_write(ctx, who, f,
             get_supplied_shares(ctx.mem[who], f.farm_id[2]),
             booster_balance, booster_base)
    ELSE IF f.farm_id[1] = "Borrowed"
    THEN settle_farm_write(ctx, who, f,
             get_borrowed_shares(ctx.mem[who], f.farm_id[2]),
             booster_balance, booster_base)
    ELSE settle_farm_net_tvl(load_assets(ctx, net_tvl_tokens(ctx, ctx.mem[who])),
                             who, f, booster_balance, booster_base)

RECURSIVE settle_farms(_, _, _, _, _)
settle_farms(ctx, who, farms, booster_balance, booster_base) ==
    IF ctx.failed \/ farms = {} THEN ctx
    ELSE settle_farms(
             settle_farm(ctx, who, CHOOSE x \in farms : TRUE,
                         booster_balance, booster_base),
             who, farms \ {CHOOSE x \in farms : TRUE}, booster_balance, booster_base)

booster_balance_of(account) ==
    IF IsSome(account.booster_staking)
    THEN Unwrap(account.booster_staking).x_booster_amount ELSE 0

settle_claimed(c, who) ==
    IF c.failed THEN c
    ELSE settle_farms(c, who, c.claimed_farms, booster_balance_of(c.mem[who]),
                      exp10(c.config.booster_decimals))

deposit_claimed(c, who) ==
    IF c.failed THEN c ELSE deposit_rewards(c, who, c.all_rewards)

\* observation: a settlement pass starts for the account `who`, after
\* `applied` actions of the batch
pass_begin(ctx, who) ==
    [ctx EXCEPT !.passes = Append(@, [who |-> who, applied |-> ctx.applied,
                                       affected_farms |-> ctx.mem[who].affected_farms,
                                       account |-> ctx.mem[who],
                                       settled |-> {}, after |-> ctx.mem[who],
                                       claims |-> << >>])]

\* observation: the pass ends; the farms it settled and the account it leaves
pass_end(ctx, who, settled_before) ==
    IF ctx.failed THEN ctx
    ELSE [ctx EXCEPT !.passes[Len(ctx.passes)] =
             [@ EXCEPT !.settled = {x[2] : x \in {y \in ctx.settled \ settled_before :
                                                     y[1] = who}},
                       !.after = ctx.mem[who],
                       !.claims = ctx.claims]]

\* a pass that takes the work list as it finds the affected farms
apply_affected_farms_as_found(c, who, affected_farms) ==
    settle_claimed(
        deposit_claimed(
            claim_farms(
                [c EXCEPT !.all_rewards = EmptyMap,
                          !.claimed_farms = {},
                          !.claims = << >>],
                who, SeqOf(affected_farms)),
            who),
        who)

apply_affected_farms_on(c, who, affected_farms) ==
    settle_claimed(
        deposit_claimed(
            claim_farms(
                [c EXCEPT !.mem[who] = add_affected_farm(@, NetTvlFarm),
                          !.all_rewards = EmptyMap,
                          !.claimed_farms = {},
                          !.claims = << >>],
                who, SeqOf(affected_farms \cup {NetTvlFarm})),
            who),
        who)

internal_account_apply_affected_farms(ctx, who) ==
    IF ctx.failed THEN ctx
    ELSE IF ctx.mem[who].affected_farms = {} THEN pass_begin(ctx, who)
    ELSE pass_end(apply_affected_farms_on(pass_begin(ctx, who), who,
                                          ctx.mem[who].affected_farms),
                  who, ctx.settled)

-----------------------------------------------------------------------------
(* prices.rs.  Prices = token -> Price, a partial map.                     *)

\* the fixed 1:1 price of the stable token, {multiplier: 10000, decimals: 22},
\* in the token unit of the model (one unit = 10^18 base units)
USN_PRICE == [multiplier |-> 10000, decimals |-> 4]

NoPrices == EmptyMap

\* Prices::get_unwrap panics when has_price is FALSE
has_price(prices, token_id) == is_usn(token_id) \/ token_id \in DOMAIN prices

get_unwrap(prices, token_id) ==
    IF is_usn(token_id) THEN USN_PRICE ELSE prices[token_id]

internal_set_prices(ctx, prices) ==
    LET stored == {t \in DOMAIN prices :
                      t \in DOMAIN ctx.last_prices \/ t \in DOMAIN ctx.assets}
    IN [ctx EXCEPT !.last_prices =
           [t \in (DOMAIN ctx.last_prices) \cup stored |->
               IF t \in stored THEN prices[t] ELSE ctx.last_prices[t]]]

-----------------------------------------------------------------------------
(* actions.rs: compute_max_discount *)

\* the panics of compute_max_discount once the assets are read: a share
\* conversion, a missing price, a division by a zero volatility ratio
discount_reads_ok(c, account, prices) ==
    /\ \A t \in DOMAIN account.collateral :
          /\ shares_to_amount_ok(c.cache[t].supplied, account.collateral[t])
          /\ has_price(prices, t)
    /\ \A t \in DOMAIN account.borrowed :
          /\ shares_to_amount_ok(c.cache[t].borrowed, account.borrowed[t])
          /\ has_price(prices, t)
          /\ c.cache[t].config.volatility_ratio > 0

discount_reads_on(c, account, prices) ==
    IF c.failed THEN c ELSE Require(c, discount_reads_ok(c, account, prices))

\* the reads and panics of compute_max_discount for the account ctx.mem[who]:
\* every collateral and borrowed asset is read through the cache
discount_reads(ctx, who, prices) ==
    IF ctx.failed \/ DOMAIN ctx.mem[who].borrowed = {} THEN ctx
    ELSE discount_reads_on(
             load_assets(ctx, (DOMAIN ctx.mem[who].collateral)
                              \cup (DOMAIN ctx.mem[who].borrowed)),
             ctx.mem[who], prices)

collateral_value(asset, shares, price) ==
    bd_mul_ratio(
        bd_from_balance_price(
            shares_to_amount(asset.supplied, shares, FALSE) + asset.supplied.usn_interest,
            price, asset.config.extra_decimals),
        asset.config.volatility_ratio)

borrowed_value(asset, shares, price) ==
    bd_div_ratio(
        bd_from_balance_price(
            shares_to_amount(asset.borrowed, shares, TRUE) + asset.borrowed.usn_interest,
            price, asset.config.extra_decimals),
        asset.config.volatility_ratio)

collateral_sum_of(ctx, account, prices) ==
    SumOver(DOMAIN account.collateral,
        [t \in DOMAIN account.collateral |->
            collateral_value(ctx.cache[t], account.collateral[t], get_unwrap(prices, t))])

borrowed_sum_of(ctx, account, prices) ==
    SumOver(DOMAIN account.borrowed,
        [t \in DOMAIN account.borrowed |->
            borrowed_value(ctx.cache[t], account.borrowed[t], get_unwrap(prices, t))])

\* the closing expression of compute_max_discount
max_discount_of(collateral_sum, borrowed_sum) ==
    IF borrowed_sum <= collateral_sum THEN bd_zero
    ELSE bd_div(bd_div(borrowed_sum - collateral_sum, borrowed_sum), bd_from(2))

\* the value of compute_max_discount on a context that did the reads
compute_max_discount(ctx, account, prices) ==
    IF DOMAIN account.borrowed = {} THEN bd_zero
    ELSE max_discount_of(collateral_sum_of(ctx, account, prices),
                         borrowed_sum_of(ctx, account, prices))

-----------------------------------------------------------------------------
(* actions.rs: the stable token paths *)

increase_usn_asset_supply(ctx, amount) ==
    internal_set_account(
        internal_deposit(internal_unwrap_account(ctx, "usn", usn_id),
                         "usn", usn_id, amount),
        usn_id, "usn")

decrease_usn_asset_supply(ctx, amount) ==
    internal_set_account(
        internal_withdraw(internal_unwrap_account(ctx, "usn", usn_id),
                          "usn", AssetAmountNew(usn_id, amount)),
        usn_id, "usn")

calculate_usn_interest_ok(asset) == u128_ratio_ok(asset.borrowed.balance)

calculate_usn_interest(asset, amount) ==
    u128_ratio(amount, asset.borrowed.usn_interest, asset.borrowed.balance, TRUE)

without_usn_interest_ok(asset) ==
    asset.borrowed.usn_interest + asset.borrowed.balance > 0

without_usn_interest(asset, repay_amount) ==
    u128_ratio(repay_amount, asset.borrowed.balance,
               asset.borrowed.usn_interest + asset.borrowed.balance, FALSE)

withdraw_usn_interest_write(c, asset, borrow_amount, borrow_interest) ==
    IF asset.borrowed.usn_interest < borrow_interest THEN Fail(c)
    ELSE [internal_set_asset(c, usn_id,
              [asset EXCEPT !.borrowed.usn_interest = @ - borrow_interest])
             EXCEPT !.ret = borrow_amount,
                    !.ret2 = borrow_amount + borrow_interest]

withdraw_usn_interest_amount(c, asset, borrow_amount) ==
    withdraw_usn_interest_write(c, asset, borrow_amount,
                                calculate_usn_interest(asset, borrow_amount))

withdraw_usn_interest_shares(c, asset, borrowed_shares) ==
    IF ~shares_to_amount_ok(asset.borrowed, borrowed_shares) THEN Fail(c)
    ELSE IF ~calculate_usn_interest_ok(asset) THEN Fail(c)
    ELSE withdraw_usn_interest_amount(c, asset,
             shares_to_amount(asset.borrowed, borrowed_shares, TRUE))

withdraw_usn_interest_on(c, who, repay_amount) ==
    IF c.failed THEN c
    ELSE IF usn_id \notin DOMAIN c.mem[who].borrowed THEN Fail(c)
    ELSE IF ~without_usn_interest_ok(CachedAsset(c, usn_id)) THEN Fail(c)
    ELSE withdraw_usn_interest_shares(c, CachedAsset(c, usn_id),
             Min(amount_to_shares(CachedAsset(c, usn_id).borrowed,
                     without_usn_interest(CachedAsset(c, usn_id), repay_amount), TRUE),
                 c.mem[who].borrowed[usn_id]))

\* returns (borrow_amount, repay_amount) in ctx.ret, ctx.ret2
withdraw_usn_interest(ctx, who, repay_amount) ==
    withdraw_usn_interest_on(internal_unwrap_asset(ctx, usn_id), who, repay_amount)

\* FungibleTokenFreeStorage::internal_deposit / internal_withdraw
token_internal_deposit(ctx, account_id, amount) ==
    IF ctx.failed THEN ctx
    ELSE [ctx EXCEPT !.ft[account_id] = @ + amount]

token_internal_withdraw(ctx, account_id, amount) ==
    IF ctx.failed THEN ctx
    ELSE IF ctx.ft[account_id] < amount THEN Fail(ctx)
    ELSE [ctx EXCEPT !.ft[account_id] = @ - amount]

-----------------------------------------------------------------------------
(* actions.rs: Liquidate.  The liquidator is the in-memory account         *)
(* "acting", the liquidation account is "liq".                             *)

liquidate_in_usn_repaid(c, borrow_amount, repay_amount) ==
    IF c.failed THEN c
    ELSE [decrease_usn_asset_supply(c, borrow_amount) EXCEPT !.ret = repay_amount]

liquidate_in_usn_deposited(c, borrow_amount, repay_amount) ==
    IF c.failed THEN c
    ELSE IF usn_id \notin DOMAIN c.mem["acting"].supplied THEN Fail(c)
    ELSE liquidate_in_usn_repaid(
             internal_repay([c EXCEPT !.aa = c.mem["acting"].supplied[usn_id]],
                            "liq", AssetAmountNew(usn_id, borrow_amount)),
             borrow_amount, repay_amount)

liquidate_in_usn_paid(c) ==
    IF c.failed THEN c
    ELSE liquidate_in_usn_deposited(internal_deposit(c, "acting", usn_id, c.ret),
                                    c.ret, c.ret2)

\* the stable token as in_asset: only the account of the token may repay it
liquidate_in_usn(ctx, asset_amount) ==
    IF ~is_usn(ctx.acting_id) THEN Fail(ctx)
    ELSE IF ~IsSome(asset_amount.amount) THEN Fail(ctx)
    ELSE liquidate_in_usn_paid(
             withdraw_usn_interest(ctx, "liq", Unwrap(asset_amount.amount)))

liquidate_in_other(ctx, asset_amount, token_id) ==
    IF token_id \notin DOMAIN ctx.mem["acting"].supplied THEN Fail(ctx)
    ELSE internal_repay(
             [ctx EXCEPT !.mem["liq"] = add_affected_farm(@, BorrowedFarm(token_id)),
                         !.aa = ctx.mem["acting"].supplied[token_id]],
             "liq", asset_amount)

\* the liquidator's position is stored back and the repaid value is summed
liquidate_in_asset_sum(c, prices, token_id) ==
    IF c.failed THEN c
    ELSE IF ~has_price(prices, token_id) THEN Fail(c)
    ELSE [internal_unwrap_asset(c, token_id) EXCEPT
             !.mem["acting"] = account_set_asset(@, token_id, c.aa),
             !.repaid_sum =
                 @ + bd_from_balance_price(c.ret, get_unwrap(prices, token_id),
                         CachedAsset(c, token_id).config.extra_decimals)]

\* one in_asset of a liquidation: the liquidator repays debt of the
\* liquidation account from its own supplied shares
liquidate_in_asset(ctx, prices, asset_amount) ==
    liquidate_in_asset_sum(
        IF is_usn(asset_amount.token_id)
        THEN liquidate_in_usn(ctx, asset_amount)
        ELSE liquidate_in_other(ctx, asset_amount, asset_amount.token_id),
        prices, asset_amount.token_id)

liquidate_out_asset_sum(c, prices, token_id) ==
    IF c.failed THEN c
    ELSE IF ~has_price(prices, token_id) THEN Fail(c)
    ELSE [c EXCEPT
             !.mem["acting"] = account_set_asset(@, token_id, c.aa),
             !.taken_sum =
                 @ + bd_from_balance_price(c.ret, get_unwrap(prices, token_id),
                         CachedAsset(c, token_id).config.extra_decimals)]

liquidate_out_asset_on(c, prices, asset_amount, token_id) ==
    IF c.failed THEN c
    ELSE liquidate_out_asset_sum(
             internal_decrease_collateral(
                 [c EXCEPT
                     !.mem["liq"] = add_affected_farm(@, SuppliedFarm(token_id)),
                     !.aa = account_asset_or_default(c.mem["acting"], token_id)],
                 "liq", asset_amount),
             prices, token_id)

\* one out_asset of a liquidation: collateral of the liquidation account
\* moves to the supplied position of the liquidator
liquidate_out_asset(ctx, prices, asset_amount) ==
    liquidate_out_asset_on(internal_unwrap_asset(ctx, asset_amount.token_id),
                           prices, asset_amount, asset_amount.token_id)

RECURSIVE liquidate_in_assets(_, _, _)
liquidate_in_assets(ctx, prices, in_assets) ==
    IF ctx.failed \/ in_assets = << >> THEN ctx
    ELSE liquidate_in_assets(liquidate_in_asset(ctx, prices, Head(in_assets)),
                             prices, Tail(in_assets))

RECURSIVE liquidate_out_assets(_, _, _)
liquidate_out_assets(ctx, prices, out_assets) ==
    IF ctx.failed \/ out_assets = << >> THEN ctx
    ELSE liquidate_out_assets(liquidate_out_asset(ctx, prices, Head(out_assets)),
                              prices, Tail(out_assets))

\* assert!(max_discount > 0) on the liquidation account before the transfer
liquidate_at_risk(max_discount) == max_discount > bd_zero

\* internal_liquidate with the first of its closing asserts only
liquidate_accepts_repaid(taken_sum, repaid_sum, max_discount, new_max_discount) ==
    bd_mul(taken_sum, bd_one - max_discount) <= repaid_sum

\* the three closing asserts of internal_liquidate
liquidate_accepts(taken_sum, repaid_sum, max_discount, new_max_discount) ==
    /\ bd_mul(taken_sum, bd_one - max_discount) <= repaid_sum
    /\ new_max_discount > bd_zero
    /\ new_max_discount < max_discount

liquidate_log(c, liquidation_account_id, max_discount, new_max_discount) ==
    [op |-> "liquidate", account_id |-> liquidation_account_id,
     max_discount |-> max_discount, new_max_discount |-> new_max_discount,
     taken_sum |-> c.taken_sum, repaid_sum |-> c.repaid_sum]

liquidate_settle(c, liquidation_account_id, max_discount, new_max_discount) ==
    IF ~liquidate_accepts(c.taken_sum, c.repaid_sum, max_discount, new_max_discount)
    THEN Fail(c)
    ELSE Log(internal_set_account(
                 internal_account_apply_affected_farms(c, "liq"),
                 liquidation_account_id, "liq"),
             liquidate_log(c, liquidation_account_id, max_discount, new_max_discount))

liquidate_close(c, prices, liquidation_account_id, max_discount) ==
    IF c.failed THEN c
    ELSE liquidate_settle(c, liquidation_account_id, max_discount,
                          compute_max_discount(c, c.mem["liq"], prices))

liquidate_transfer(c, prices, liquidation_account_id, in_assets, out_assets, max_discount) ==
    IF ~liquidate_at_risk(max_discount) THEN Fail(c)
    ELSE liquidate_close(
             discount_reads(
                 liquidate_out_assets(
                     liquidate_in_assets(
                         [c EXCEPT !.repaid_sum = bd_zero, !.taken_sum = bd_zero],
                         prices, in_assets),
                     prices, out_assets),
                 "liq", prices),
             prices, liquidation_account_id, max_discount)

liquidate_on(c, prices, liquidation_account_id, in_assets, out_assets) ==
    IF c.failed THEN c
    ELSE liquidate_transfer(c, prices, liquidation_account_id, in_assets, out_assets,
                            compute_max_discount(c, c.mem["liq"], prices))

internal_liquidate(ctx, prices, liquidation_account_id, in_assets, out_assets) ==
    liquidate_on(
        discount_reads(internal_unwrap_account(ctx, "liq", liquidation_account_id),
                       "liq", prices),
        prices, liquidation_account_id, in_assets, out_assets)

-----------------------------------------------------------------------------
(* actions.rs: ForceClose.  The locals of the operation live in the        *)
(* context: taken_sum is collateral_sum, repaid_sum is borrowed_sum,       *)
(* force_farms is affected_farms, written_off records the debts cancelled. *)

RECURSIVE force_close_collateral(_, _, _)

force_close_collateral_take(c, prices, todo, token_id, shares, asset, amount) ==
    IF ~pool_withdraw_ok(asset.supplied, shares, amount) THEN Fail(c)
    ELSE IF ~has_price(prices, token_id) THEN Fail(c)
    ELSE force_close_collateral(
             internal_set_asset(
                 [c EXCEPT !.taken_sum =
                               @ + bd_from_balance_price(amount,
                                       get_unwrap(prices, token_id),
                                       asset.config.extra_decimals),
                           !.force_farms = @ \cup {SuppliedFarm(token_id)}],
                 token_id,
                 [asset EXCEPT !.reserved = @ + amount,
                               !.supplied = pool_withdraw(@, shares, amount)]),
             prices, MapRemove(todo, token_id))

force_close_collateral_on(c, prices, todo, token_id) ==
    IF c.failed THEN c
    ELSE IF ~shares_to_amount_ok(CachedAsset(c, token_id).supplied, todo[token_id])
    THEN Fail(c)
    ELSE force_close_collateral_take(c, prices, todo, token_id, todo[token_id],
             CachedAsset(c, token_id),
             shares_to_amount(CachedAsset(c, token_id).supplied, todo[token_id], FALSE))

\* drains liquidation_account.collateral, `todo` = the entries left
force_close_collateral(ctx, prices, todo) ==
    IF ctx.failed \/ DOMAIN todo = {} THEN ctx
    ELSE force_close_collateral_on(
             internal_unwrap_asset(ctx, CHOOSE t \in DOMAIN todo : TRUE),
             prices, todo, CHOOSE t \in DOMAIN todo : TRUE)

\* assert!(asset.reserved >= amount, "Not enough {} in reserve")
force_close_reserve_covers(reserved, amount) == reserved >= amount

RECURSIVE force_close_borrowed(_, _, _)

force_close_borrowed_take(c, prices, todo, token_id, shares, asset, amount) ==
    IF ~force_close_reserve_covers(asset.reserved, amount) THEN Fail(c)
    ELSE IF ~pool_withdraw_ok(asset.borrowed, shares, amount) THEN Fail(c)
    ELSE IF ~has_price(prices, token_id) THEN Fail(c)
    ELSE force_close_borrowed(
             internal_set_asset(
                 [c EXCEPT !.repaid_sum =
                               @ + bd_from_balance_price(amount,
                                       get_unwrap(prices, token_id),
                                       asset.config.extra_decimals),
                           !.force_farms = @ \cup {BorrowedFarm(token_id)},
                           !.written_off = @ \cup
                               {[token_id |-> token_id, amount |-> amount,
                                 reserved |-> asset.reserved]}],
                 token_id,
                 [asset EXCEPT !.reserved = @ - amount,
                               !.borrowed = pool_withdraw(@, shares, amount)]),
             prices, MapRemove(todo, token_id))

force_close_borrowed_on(c, prices, todo, token_id) ==
    IF c.failed THEN c
    ELSE IF ~shares_to_amount_ok(CachedAsset(c, token_id).borrowed, todo[token_id])
    THEN Fail(c)
    ELSE force_close_borrowed_take(c, prices, todo, token_id, todo[token_id],
             CachedAsset(c, token_id),
             shares_to_amount(CachedAsset(c, token_id).borrowed, todo[token_id], TRUE))

\* drains liquidation_account.borrowed
force_close_borrowed(ctx, prices, todo) ==
    IF ctx.failed \/ DOMAIN todo = {} THEN ctx
    ELSE force_close_borrowed_on(
             internal_unwrap_asset(ctx, CHOOSE t \in DOMAIN todo : TRUE),
             prices, todo, CHOOSE t \in DOMAIN todo : TRUE)

\* assert!(config.force_closing_enabled)
force_close_allowed(cfg) == cfg.force_closing_enabled

\* internal_force_close without its assert on the two sums
force_close_any(borrowed_sum, collateral_sum) == TRUE

\* assert!(borrowed_sum > collateral_sum)
force_close_insolvent(borrowed_sum, collateral_sum) == borrowed_sum > collateral_sum

force_close_log(c, liquidation_account_id) ==
    [op |-> "force_close", account_id |-> liquidation_account_id,
     enabled |-> c.config.force_closing_enabled,
     collateral_sum |-> c.taken_sum, borrowed_sum |-> c.repaid_sum,
     written_off |-> c.written_off]

force_close_settle(c, liquidation_account_id) ==
    IF c.failed THEN c
    ELSE IF ~force_close_insolvent(c.repaid_sum, c.taken_sum) THEN Fail(c)
    ELSE Log(internal_set_account(
                 internal_account_apply_affected_farms(
                     [c EXCEPT !.mem["liq"].affected_farms = @ \cup c.force_farms],
                     "liq"),
                 liquidation_account_id, "liq"),
             force_close_log(c, liquidation_account_id))

force_close_debts(c, prices, borrowed) ==
    IF c.failed THEN c
    ELSE force_close_borrowed([c EXCEPT !.mem["liq"].borrowed = EmptyMap],
                              prices, borrowed)

force_close_on(c, prices, liquidation_account_id) ==
    IF c.failed THEN c
    ELSE force_close_settle(
             force_close_debts(
                 force_close_collateral(
                     [c EXCEPT !.mem["liq"].collateral = EmptyMap,
                               !.taken_sum = bd_zero, !.repaid_sum = bd_zero,
                               !.force_farms = {}, !.written_off = {}],
                     prices, c.mem["liq"].collateral),
                 prices, c.mem["liq"].borrowed),
             liquidation_account_id)

internal_force_close(ctx, prices, liquidation_account_id) ==
    IF ~force_close_allowed(ctx.config) THEN Fail(ctx)
    ELSE force_close_on(internal_unwrap_account(ctx, "liq", liquidation_account_id),
                        prices, liquidation_account_id)

-----------------------------------------------------------------------------
(* actions.rs: Action and internal_execute *)

NoAssetAmount == [token_id |-> "", amount |-> None, max_amount |-> None]

Action(kind, asset_amount) ==
    [kind |-> kind, asset_amount |-> asset_amount, amount |-> 0,
     account_id |-> "", in_assets |-> << >>, out_assets |-> << >>]
UsnAction(kind, amount) ==
    [kind |-> kind, asset_amount |-> NoAssetAmount, amount |-> amount,
     account_id |-> "", in_assets |-> << >>, out_assets |-> << >>]
LiquidateAction(account_id, in_assets, out_assets) ==
    [kind |-> "Liquidate", asset_amount |-> NoAssetAmount, amount |-> 0,
     account_id |-> account_id, in_assets |-> in_assets, out_assets |-> out_assets]
ForceCloseAction(account_id) ==
    [kind |-> "ForceClose", asset_amount |-> NoAssetAmount, amount |-> 0,
     account_id |-> account_id, in_assets |-> << >>, out_assets |-> << >>]

internal_ft_transfer_on(c, account_id, token_id, amount) ==
    IF c.failed THEN c
    ELSE [c EXCEPT !.sent = Append(@,
             [account_id |-> account_id, token_id |-> token_id, amount |-> amount,
              ft_amount |-> amount \div
                  exp10(CachedAsset(c, token_id).config.extra_decimals)])]

\* fungible_token.rs internal_ft_transfer: the promise and its callback
internal_ft_transfer(ctx, account_id, token_id, amount) ==
    internal_ft_transfer_on(internal_unwrap_asset(ctx, token_id),
                            account_id, token_id, amount)

\* account.internal_set_asset(token_id, account_asset) closing an arm that
\* worked on the AccountAsset local
store_account_asset(c, token_id) ==
    IF c.failed THEN c
    ELSE [c EXCEPT !.mem["acting"] = account_set_asset(@, token_id, c.aa)]

withdraw_transfer(c, account_id, token_id) ==
    IF c.failed THEN c ELSE internal_ft_transfer(c, account_id, token_id, c.ret)

action_withdraw(ctx, account_id, asset_amount) ==
    withdraw_transfer(
        internal_withdraw(
            [ctx EXCEPT !.mem["acting"] =
                add_affected_farm(@, SuppliedFarm(asset_amount.token_id))],
            "acting", asset_amount),
        account_id, asset_amount.token_id)

action_increase_collateral(ctx, asset_amount) ==
    internal_increase_collateral([ctx EXCEPT !.need_number_check = TRUE],
                                 "acting", asset_amount)

action_decrease_collateral(ctx, asset_amount) ==
    store_account_asset(
        internal_decrease_collateral(
            [ctx EXCEPT !.need_risk_check = TRUE,
                        !.aa = account_asset_or_default(ctx.mem["acting"],
                                                        asset_amount.token_id)],
            "acting", asset_amount),
        asset_amount.token_id)

action_borrow(ctx, asset_amount) ==
    internal_borrow(
        [ctx EXCEPT
            !.need_number_check = TRUE,
            !.need_risk_check = TRUE,
            !.mem["acting"] =
                add_affected_farm(
                    add_affected_farm(@, SuppliedFarm(asset_amount.token_id)),
                    BorrowedFarm(asset_amount.token_id))],
        "acting", asset_amount)

action_borrow_usn(ctx, account_id, amount) ==
    token_internal_deposit(
        internal_withdraw(
            internal_borrow(
                increase_usn_asset_supply(
                    [ctx EXCEPT !.need_number_check = TRUE,
                                !.need_risk_check = TRUE],
                    amount),
                "acting", AssetAmountNew(usn_id, amount)),
            "acting", AssetAmountNew(usn_id, amount)),
        account_id, amount)

action_repay(ctx, asset_amount) ==
    IF asset_amount.token_id \notin DOMAIN ctx.mem["acting"].supplied THEN Fail(ctx)
    ELSE store_account_asset(
             internal_repay(
                 [ctx EXCEPT
                     !.aa = ctx.mem["acting"].supplied[asset_amount.token_id],
                     !.mem["acting"] =
                         add_affected_farm(
                             add_affected_farm(@, SuppliedFarm(asset_amount.token_id)),
                             BorrowedFarm(asset_amount.token_id))],
                 "acting", asset_amount),
             asset_amount.token_id)

repay_usn_repaid(c, borrow_amount) ==
    IF c.failed THEN c
    ELSE [decrease_usn_asset_supply(c, borrow_amount) EXCEPT
             !.mem["acting"] = account_set_asset(@, usn_id, c.aa)]

repay_usn_deposited(c, borrow_amount) ==
    IF c.failed THEN c
    ELSE IF usn_id \notin DOMAIN c.mem["acting"].supplied THEN Fail(c)
    ELSE repay_usn_repaid(
             internal_repay([c EXCEPT !.aa = c.mem["acting"].supplied[usn_id]],
                            "acting", AssetAmountNew(usn_id, borrow_amount)),
             borrow_amount)

repay_usn_paid(c, account_id) ==
    IF c.failed THEN c
    ELSE repay_usn_deposited(
             internal_deposit(token_internal_withdraw(c, account_id, c.ret2),
                              "acting", usn_id, c.ret),
             c.ret)

action_repay_usn(ctx, account_id, amount) ==
    repay_usn_paid(withdraw_usn_interest(ctx, "acting", amount), account_id)

\* the Liquidate arm without the assert on the two accounts
action_liquidate_of_any(ctx, account_id, action, prices) ==
    IF action.in_assets = << >> \/ action.out_assets = << >> THEN Fail(ctx)
    ELSE internal_liquidate(ctx, prices, action.account_id,
                            action.in_assets, action.out_assets)

action_liquidate(ctx, account_id, action, prices) ==
    IF account_id = action.account_id THEN Fail(ctx)
    ELSE IF action.in_assets = << >> \/ action.out_assets = << >> THEN Fail(ctx)
    ELSE internal_liquidate(ctx, prices, action.account_id,
                            action.in_assets, action.out_assets)

action_force_close(ctx, account_id, action, prices) ==
    IF account_id = action.account_id THEN Fail(ctx)
    ELSE internal_force_close(ctx, prices, action.account_id)

\* the arm of the match for one action; "acting" is the executing account
apply_action(ctx, account_id, action, prices) ==
    CASE action.kind = "Withdraw" ->
            action_withdraw(ctx, account_id, action.asset_amount)
      [] action.kind = "IncreaseCollateral" ->
            action_increase_collateral(ctx, action.asset_amount)
      [] action.kind = "DecreaseCollateral" ->
            action_decrease_collateral(ctx, action.asset_amount)
      [] action.kind = "Borrow" -> action_borrow(ctx, action.asset_amount)
      [] action.kind = "BorrowUsn" -> action_borrow_usn(ctx, account_id, action.amount)
      [] action.kind = "Repay" -> action_repay(ctx, action.asset_amount)
      [] action.kind = "RepayUsn" -> action_repay_usn(ctx, account_id, action.amount)
      [] action.kind = "Liquidate" -> action_liquidate(ctx, account_id, action, prices)
      [] action.kind = "ForceClose" ->
            action_force_close(ctx, account_id, action, prices)

RECURSIVE apply_actions(_, _, _, _)
apply_actions(ctx, account_id, actions, prices) ==
    IF ctx.failed \/ actions = << >> THEN ctx
    ELSE apply_actions(
             [apply_action(ctx, account_id, Head(actions), prices)
                 EXCEPT !.applied = @ + 1],
             account_id, Tail(actions), prices)

\* internal_execute without the assert on the number of assets
number_check_skipped(account, cfg) == TRUE

\* the asset-count check after the loop
number_check(account, cfg) ==
    Cardinality(DOMAIN account.collateral) + Cardinality(DOMAIN account.borrowed)
        <= cfg.max_num_assets

\* internal_execute without the assert of its risk check
risk_check_skipped(max_discount) == TRUE

\* the risk check after the loop: the assert on the account's max discount
risk_check(max_discount) == max_discount = bd_zero

execute_settle(c, prices) ==
    IF c.failed THEN c
    ELSE IF c.need_risk_check
            /\ ~risk_check(compute_max_discount(c, c.mem["acting"], prices))
    THEN Fail(c)
    ELSE internal_account_apply_affected_farms(
             [c EXCEPT !.risk_checked = c.need_risk_check], "acting")

execute_checks(c, prices) ==
    IF c.failed THEN c
    ELSE IF c.need_number_check /\ ~number_check(c.mem["acting"], c.config)
    THEN Fail(c)
    ELSE execute_settle(
             IF c.need_risk_check THEN discount_reads(c, "acting", prices) ELSE c,
             prices)

internal_execute(ctx, account_id, actions, prices) ==
    IF ctx.failed THEN ctx
    ELSE execute_checks(
             apply_actions(
                 internal_set_prices(
                     [ctx EXCEPT !.acting_id = account_id, !.batch = actions],
                     prices),
                 account_id, actions, prices),
             prices)

-----------------------------------------------------------------------------
(* config.rs, price_receiver.rs *)

NANOS_PER_SEC == 1000000000
to_nano(sec) == sec * NANOS_PER_SEC

MIN_BOOSTER_MULTIPLIER == 10000

config_assert_valid(cfg) ==
    /\ cfg.minimum_staking_duration_sec < cfg.maximum_staking_duration_sec
    /\ cfg.x_booster_multiplier_at_maximum_staking_duration >= MIN_BOOSTER_MULTIPLIER

\* a validation without the staleness assert
validate_price_data_unaged(ctx, data) ==
    /\ data.recency_duration_sec <= ctx.config.maximum_recency_duration_sec
    /\ data.timestamp <= ctx.now

\* PriceData = [timestamp, recency_duration_sec, prices]
validate_price_data(ctx, data) ==
    /\ data.recency_duration_sec <= ctx.config.maximum_recency_duration_sec
    /\ data.timestamp <= ctx.now
    /\ ctx.now - data.timestamp <= to_nano(ctx.config.maximum_staleness_duration_sec)

-----------------------------------------------------------------------------
(* The state machine *)

InitConfig ==
    [booster_token_id |-> "A",
     booster_decimals |-> 0,
     max_num_assets |-> 2,
     maximum_recency_duration_sec |-> 1,
     maximum_staleness_duration_sec |-> 0,
     minimum_staking_duration_sec |-> 0,
     maximum_staking_duration_sec |-> 1,
     x_booster_multiplier_at_maximum_staking_duration |-> 20000,
     force_closing_enabled |-> TRUE]

AssetConfigOf(token_id) ==
    [reserve_ratio |-> 2500,
     target_utilization |-> 8000,
     target_utilization_rate |-> 150,
     max_utilization_rate |-> 300,
     volatility_ratio |-> IF token_id = "A" THEN 9000 ELSE 8000,
     extra_decimals |-> 0,
     can_deposit |-> TRUE,
     can_withdraw |-> TRUE,
     can_use_as_collateral |-> TRUE,
     can_borrow |-> TRUE,
     net_tvl_multiplier |-> 10000]

NoObservation ==
    [kind |-> "init", ok |-> TRUE, account_id |-> "", prices |-> NoPrices,
     actions |-> << >>, applied |-> 0,
     log |-> << >>, wrote |-> FALSE, risk_checked |-> FALSE, settled |-> {},
     passes |-> << >>, price_data |-> << >>,
     promise |-> << >>, promise_success |-> TRUE, call |-> << >>,
     asset_ops |-> << >>, healthy |-> {}]

NoProbe == [kind |-> "none"]

\* The contract after Burrow::new, add_asset for every token and
\* storage_deposit (registration) of every account.
Init ==
    /\ assets = [t \in Tokens |-> NewAsset(NANOS_PER_MS, AssetConfigOf(t))]
    /\ accounts = [a \in AccountIds |-> NewAccount]
    /\ asset_farms = EmptyMap
    /\ inactive_rewards = EmptyMap
    /\ last_prices = EmptyMap
    /\ config = InitConfig
    /\ ft = [a \in AccountIds |-> 0]
    /\ promises = << >>
    /\ now = NANOS_PER_MS
    /\ ops = 0
    /\ last = NoObservation
    /\ probe = NoProbe

\* the context of a fresh invocation: the statics are empty
NewCtx ==
    [failed |-> FALSE,
     assets |-> assets, accounts |-> accounts, asset_farms |-> asset_farms,
     inactive_rewards |-> inactive_rewards, last_prices |-> last_prices,
     config |-> config, ft |-> ft,
     cache |-> EmptyMap, farm_cache |-> EmptyMap, asset_ops |-> << >>,
     mem |-> [acting |-> NewAccount, liq |-> NewAccount, usn |-> NewAccount],
     acting_id |-> "", aa |-> 0, ret |-> 0, ret2 |-> 0,
     sent |-> << >>, log |-> << >>, now |-> now,
     repaid_sum |-> bd_zero, taken_sum |-> bd_zero,
     claimed_farms |-> {}, claims |-> << >>, all_rewards |-> EmptyMap, force_farms |-> {},
     written_off |-> {}, settled |-> {}, passes |-> << >>,
     need_risk_check |-> FALSE, need_number_check |-> FALSE,
     risk_checked |-> FALSE, applied |-> 0, batch |-> << >>]

Price(m) == [multiplier |-> m, decimals |-> 0]

\* price of B in an oracle call; the price of A is 1
PriceValues == {1, 2}

PriceDataOf(pb) ==
    [timestamp |-> now, recency_duration_sec |-> 0,
     prices |-> [t \in {"A", "B"} |-> Price(IF t = "A" THEN 1 ELSE pb)]]

\* the context of a fresh invocation that has read what compute_max_discount
\* reads for the account
DiscountCtx(account_id, prices) ==
    discount_reads(internal_unwrap_account(NewCtx, "acting", account_id),
                   "acting", prices)

DiscountIn(c, prices) ==
    IF c.failed THEN -1 ELSE compute_max_discount(c, c.mem["acting"], prices)

\* the max discount of a stored account at the given prices
MaxDiscountOf(account_id, prices) ==
    DiscountIn(DiscountCtx(account_id, prices), prices)

\* the accounts that are healthy before the invocation, each with the price
\* of B at which it is: <<account_id, price of B>>
HealthyAccounts ==
    {h \in Users \X PriceValues : MaxDiscountOf(h[1], PriceDataOf(h[2]).prices) = bd_zero}

Observation(kind, ctx, account_id, prices) ==
    [kind |-> kind, ok |-> ~ctx.failed, account_id |-> account_id,
     prices |-> prices, actions |-> ctx.batch, applied |-> ctx.applied,
     log |-> IF ctx.failed THEN << >> ELSE ctx.log,
     wrote |-> <<ctx.assets, ctx.accounts, ctx.asset_farms, ctx.inactive_rewards,
                 ctx.last_prices, ctx.config, ctx.ft>> # persisted,
     risk_checked |-> ~ctx.failed /\ ctx.risk_checked,
     settled |-> IF ctx.failed THEN {} ELSE ctx.settled,
     passes |-> IF ctx.failed THEN << >> ELSE ctx.passes,
     price_data |-> << >>,
     promise |-> << >>, promise_success |-> TRUE, call |-> << >>,
     asset_ops |-> IF ctx.failed THEN << >> ELSE ctx.asset_ops,
     healthy |-> IF ctx.failed THEN {} ELSE HealthyAccounts]

\* an end of invocation that keeps the writes of a panicked invocation too
CommitWrites(ctx) ==
    /\ assets' = ctx.assets
    /\ accounts' = ctx.accounts
    /\ asset_farms' = ctx.asset_farms
    /\ inactive_rewards' = ctx.inactive_rewards
    /\ last_prices' = ctx.last_prices
    /\ config' = ctx.config
    /\ ft' = ctx.ft

\* The end of an invocation: the host keeps the writes of an invocation
\* that returned and discards the writes of one that panicked.
Commit(ctx) ==
    IF ctx.failed
    THEN UNCHANGED persisted
    ELSE /\ assets' = ctx.assets
         /\ accounts' = ctx.accounts
         /\ asset_farms' = ctx.asset_farms
         /\ inactive_rewards' = ctx.inactive_rewards
         /\ last_prices' = ctx.last_prices
         /\ config' = ctx.config
         /\ ft' = ctx.ft

\* an invocation may start while the bound on invocations is not reached;
\* a reverted invocation is observed as the last step of a behaviour
CanInvoke == ops < MaxOps /\ last.ok

\* one invocation that ended with the context ctx
Invoke(ctx, kind, account_id, prices) ==
    /\ Commit(ctx)
    /\ promises' = IF ctx.failed THEN promises ELSE promises \o ctx.sent
    /\ ops' = ops + 1
    /\ last' = Observation(kind, ctx, account_id, prices)
    /\ UNCHANGED <<now, probe>>

-----------------------------------------------------------------------------
(* Inputs *)

\* the amount of every ft_on_transfer
DepositAmounts == {10}

Amt(t, a) == [token_id |-> t, amount |-> Some(a), max_amount |-> None]
All(t) == [token_id |-> t, amount |-> None, max_amount |-> None]

\* price data the oracle call has to refuse: a recency above the maximum, a
\* timestamp after the block timestamp, a timestamp older than the maximal
\* staleness
OffPriceData ==
    {[PriceDataOf(1) EXCEPT !.recency_duration_sec =
                                config.maximum_recency_duration_sec + 1],
     [PriceDataOf(1) EXCEPT !.timestamp = now + TICK_NANOS],
     [PriceDataOf(1) EXCEPT !.timestamp =
          now - to_nano(config.maximum_staleness_duration_sec) - TICK_NANOS]}

\* ft_on_transfer calls: <<token_id, sender_id, msg, actions>>
DepositCalls ==
    {<<"A", "alice", "Supply", << >> >>,
     <<"A", "alice", "Execute", <<Action("IncreaseCollateral", All("A"))>> >>,
     <<"A", "alice", "Execute", <<Action("Withdraw", Amt("A", 4))>> >>,
     <<"B", "bob", "Supply", << >> >>,
     <<"A", "bob", "DepositToReserve", << >> >>,
     <<"B", "bob", "DepositToReserve", << >> >>}

\* execute calls: <<account_id, actions>>
ExecuteCalls ==
    {<<"alice", <<Action("Withdraw", All("A"))>> >>,
     <<"alice", <<Action("Repay", All("B"))>> >>,
     <<"alice", <<Action("Repay", All("A"))>> >>,
     <<"alice", <<Action("Repay", Amt("A", 5))>> >>,
     <<"alice", <<Action("Withdraw", Amt("A", 4)), Action("Withdraw", Amt("A", 11))>> >>,
     <<"alice", <<Action("IncreaseCollateral", Amt("A", 4)),
                  Action("Withdraw", All("A"))>> >>,
     <<"bob", <<Action("Withdraw", Amt("B", 7))>> >>}

\* oracle_on_call batches: <<sender_id, actions, is_liquidator>>
OracleCalls ==
    {<<"alice", <<Action("Borrow", Amt("B", 4))>>, FALSE>>,
     <<"alice", <<Action("Borrow", Amt("B", 7))>>, FALSE>>,
     <<"alice", <<Action("Borrow", Amt("B", 11))>>, FALSE>>,
     <<"alice", <<Action("Borrow", Amt("A", 4))>>, FALSE>>,
     <<"alice", <<Action("Borrow", Amt("A", 1))>>, FALSE>>,
     <<"alice", <<Action("Borrow", Amt("B", 4)), Action("Withdraw", All("B"))>>, FALSE>>,
     <<"alice", <<Action("DecreaseCollateral", Amt("A", 4))>>, FALSE>>,
     <<"alice", <<Action("DecreaseCollateral", Amt("A", 11))>>, FALSE>>,
     <<"alice", <<UsnAction("BorrowUsn", 4)>>, FALSE>>,
     <<"alice", <<UsnAction("RepayUsn", 4)>>, FALSE>>,
     <<"bob", <<LiquidateAction("alice", <<Amt("B", 1)>>, <<Amt("A", 1)>>)>>, FALSE>>,
     <<"bob", <<LiquidateAction("alice", <<Amt("B", 1)>>, <<Amt("A", 2)>>)>>, FALSE>>,
     <<"bob", <<LiquidateAction("alice", <<Amt("B", 1)>>, <<Amt("A", 11)>>)>>, FALSE>>,
     <<"bob", <<LiquidateAction("bob", <<Amt("B", 1)>>, <<Amt("A", 1)>>)>>, FALSE>>,
     <<"bob", <<LiquidateAction("alice", <<Amt("usn", 1)>>, <<Amt("A", 1)>>)>>, TRUE>>,
     <<"bob", <<ForceCloseAction("alice")>>, FALSE>>}

-----------------------------------------------------------------------------
(* Invocations *)

\* Burrow::execute
execute(account_id, actions) ==
    internal_set_account(
        internal_execute(internal_unwrap_account(NewCtx, "acting", account_id),
                         account_id, actions, NoPrices),
        account_id, "acting")

Execute(account_id, actions) ==
    /\ CanInvoke
    /\ Invoke(execute(account_id, actions), "execute", account_id, NoPrices)

oracle_on_call_validated(c, account_id, data, actions) ==
    IF c.failed THEN c
    ELSE IF ~validate_price_data(c, data) THEN Fail(c)
    ELSE internal_set_account(
             internal_execute(c, account_id, actions, data.prices),
             account_id, "acting")

\* the account the batch of oracle_on_call runs for
oracle_account_id(sender_id, is_liquidator) ==
    IF is_liquidator THEN usn_id ELSE sender_id

\* Burrow::oracle_on_call
oracle_on_call(sender_id, data, actions, is_liquidator) ==
    IF is_liquidator /\ ~(Len(actions) = 1 /\ actions[1].kind = "Liquidate")
    THEN Fail(NewCtx)
    ELSE oracle_on_call_validated(
             internal_unwrap_account(NewCtx, "acting",
                                     oracle_account_id(sender_id, is_liquidator)),
             oracle_account_id(sender_id, is_liquidator), data, actions)

\* the end of an oracle_on_call: the observation keeps the times of the data
InvokeOracle(ctx, account_id, data) ==
    /\ Commit(ctx)
    /\ promises' = IF ctx.failed THEN promises ELSE promises \o ctx.sent
    /\ ops' = ops + 1
    /\ last' = [Observation("oracle_on_call", ctx, account_id, data.prices)
                   EXCEPT !.price_data =
                       <<[timestamp |-> data.timestamp,
                          recency_duration_sec |-> data.recency_duration_sec]>>]
    /\ UNCHANGED <<now, probe>>

OracleOnCall(sender_id, data, actions, is_liquidator) ==
    /\ CanInvoke
    /\ InvokeOracle(oracle_on_call(sender_id, data, actions, is_liquidator),
                    oracle_account_id(sender_id, is_liquidator), data)

\* the Supply and Execute arms of ft_on_transfer
ft_on_transfer_deposit(c, token_id, sender_id, amount, actions) ==
    internal_set_account(
        internal_execute(
            internal_deposit(
                [internal_unwrap_account(c, "acting", sender_id) EXCEPT
                    !.mem["acting"] = add_affected_farm(@, SuppliedFarm(token_id))],
                "acting", token_id, amount),
            sender_id, actions, NoPrices),
        sender_id, "acting")

ft_on_transfer_on(c, token_id, sender_id, amount, msg, actions) ==
    IF c.failed THEN c
    ELSE IF ~CachedAsset(c, token_id).config.can_deposit THEN Fail(c)
    ELSE IF msg = "DepositToReserve"
    THEN internal_set_asset(c, token_id,
             [CachedAsset(c, token_id) EXCEPT !.reserved = @ + amount])
    ELSE ft_on_transfer_deposit(c, token_id, sender_id, amount,
                                IF msg = "Execute" THEN actions ELSE << >>)

\* Burrow::ft_on_transfer; msg is "Execute" (with actions), "DepositToReserve"
\* or "Supply"
ft_on_transfer(token_id, sender_id, amount, msg, actions) ==
    ft_on_transfer_on(
        internal_unwrap_asset(NewCtx, token_id), token_id, sender_id,
        amount * exp10(MapGet(assets, token_id, NewAsset(0, [extra_decimals |-> 0]))
                           .config.extra_decimals),
        msg, actions)

FtOnTransfer(token_id, sender_id, amount, msg, actions) ==
    /\ CanInvoke
    /\ Invoke(ft_on_transfer(token_id, sender_id, amount, msg, actions),
              IF msg = "DepositToReserve" THEN "deposit_to_reserve"
              ELSE "ft_on_transfer",
              sender_id, NoPrices)

\* Burrow::after_ft_transfer, the callback of the promise p
after_ft_transfer(p, promise_success) ==
    IF ~promise_success
    THEN internal_set_account(
             internal_deposit(
                 [internal_unwrap_account(NewCtx, "acting", p.account_id) EXCEPT
                     !.mem["acting"] = add_affected_farm(@, SuppliedFarm(p.token_id))],
                 "acting", p.token_id, p.amount),
             p.account_id, "acting")
    ELSE NewCtx

RemoveAt(seq, i) ==
    [j \in 1..(Len(seq) - 1) |-> IF j < i THEN seq[j] ELSE seq[j + 1]]

\* the end of a callback invocation: the promise is gone whatever happens
InvokeCallback(ctx, i, promise_success) ==
    /\ Commit(ctx)
    /\ promises' = RemoveAt(promises, i)
    /\ ops' = ops + 1
    /\ last' = [Observation("after_ft_transfer", ctx, promises[i].account_id, NoPrices)
                   EXCEPT !.promise = <<promises[i]>>,
                          !.promise_success = promise_success]
    /\ UNCHANGED <<now, probe>>

\* the ft_transfer promise i resolves and its callback runs
AfterFtTransfer(i, promise_success) ==
    /\ CanInvoke
    /\ i \in 1..Len(promises)
    /\ InvokeCallback(after_ft_transfer(promises[i], promise_success), i,
                      promise_success)

\* the end of an owner's call: the observation keeps the arguments
InvokeOwner(ctx, kind, call) ==
    /\ Commit(ctx)
    /\ promises' = IF ctx.failed THEN promises ELSE promises \o ctx.sent
    /\ ops' = ops + 1
    /\ last' = [Observation(kind, ctx, "", NoPrices) EXCEPT !.call = <<call>>]
    /\ UNCHANGED <<now, probe>>

\* Burrow::update_config
update_config(cfg) ==
    IF config_assert_valid(cfg) THEN [NewCtx EXCEPT !.config = cfg] ELSE Fail(NewCtx)

UpdateConfig(cfg) ==
    /\ CanInvoke
    /\ InvokeOwner(update_config(cfg), "update_config", cfg)

\* the reward record add_asset_farm_reward continues from: the active one,
\* else the inactive one, else a new one
farm_reward_or_default(asset_farm, inactive, reward_token_id) ==
    IF reward_token_id \in DOMAIN asset_farm.rewards
    THEN asset_farm.rewards[reward_token_id]
    ELSE IF reward_token_id \in DOMAIN inactive THEN inactive[reward_token_id]
    ELSE NewAssetFarmReward

add_reward_write(c, farm_id, reward_token_id, asset_farm, inactive, reward) ==
    internal_set_asset_farm(
        IF reward_token_id \notin DOMAIN asset_farm.rewards
           /\ reward_token_id \in DOMAIN inactive
        THEN [c EXCEPT !.inactive_rewards =
                 MapInsert(@, farm_id, MapRemove(inactive, reward_token_id))]
        ELSE c,
        farm_id,
        [asset_farm EXCEPT !.rewards = MapInsert(@, reward_token_id, reward)])

add_reward_to(c, farm_id, reward_token_id, new_reward_per_day, new_booster_log_base, reward_amount, asset_farm, inactive) ==
    add_reward_write(c, farm_id, reward_token_id, asset_farm, inactive,
        [farm_reward_or_default(asset_farm, inactive, reward_token_id) EXCEPT
            !.reward_per_day = new_reward_per_day,
            !.booster_log_base = new_booster_log_base,
            !.remaining_rewards = @ + reward_amount])

add_reward_farm(c, farm_id, reward_token_id, new_reward_per_day, new_booster_log_base, reward_amount) ==
    IF c.failed THEN c
    ELSE add_reward_to(c, farm_id, reward_token_id, new_reward_per_day,
             new_booster_log_base, reward_amount,
             IF farm_id \in DOMAIN c.farm_cache THEN c.farm_cache[farm_id]
             ELSE [block_timestamp |-> c.now, rewards |-> EmptyMap],
             FarmInactive(c, farm_id))

add_reward_reserved(c, farm_id, reward_token_id, new_reward_per_day, new_booster_log_base, reward_amount) ==
    IF c.failed THEN c
    ELSE add_reward_farm(internal_get_asset_farm(c, farm_id, FALSE), farm_id,
             reward_token_id, new_reward_per_day, new_booster_log_base,
             reward_amount)

add_reward_on(c, farm_id, reward_token_id, new_reward_per_day, new_booster_log_base, reward_amount) ==
    IF c.failed THEN c
    ELSE IF ~(/\ CachedAsset(c, reward_token_id).reserved >= reward_amount
              /\ available_amount(CachedAsset(c, reward_token_id)) >= reward_amount)
    THEN Fail(c)
    ELSE add_reward_reserved(
             internal_set_asset(c, reward_token_id,
                 [CachedAsset(c, reward_token_id) EXCEPT !.reserved = @ - reward_amount]),
             farm_id, reward_token_id, new_reward_per_day, new_booster_log_base,
             reward_amount)

\* Burrow::add_asset_farm_reward
add_asset_farm_reward(farm_id, reward_token_id, new_reward_per_day, new_booster_log_base, reward_amount) ==
    IF farm_id[1] # "NetTvl" /\ farm_id[2] \notin DOMAIN assets THEN Fail(NewCtx)
    ELSE add_reward_on(internal_unwrap_asset(NewCtx, reward_token_id), farm_id,
             reward_token_id, new_reward_per_day, new_booster_log_base,
             reward_amount)

AddAssetFarmReward(farm_id, reward_token_id, new_reward_per_day, new_booster_log_base, reward_amount) ==
    /\ CanInvoke
    /\ InvokeOwner(add_asset_farm_reward(farm_id, reward_token_id, new_reward_per_day,
                                         new_booster_log_base, reward_amount),
                   "add_asset_farm_reward",
                   [farm_id |-> farm_id, reward_token_id |-> reward_token_id,
                    reward_amount |-> reward_amount])

-----------------------------------------------------------------------------
(* booster_staking.rs *)

sec_to_nano(sec) == sec * NANOS_PER_SEC

\* BoosterStaking::default
NewBoosterStaking ==
    [staked_booster_amount |-> 0, x_booster_amount |-> 0, unlock_timestamp |-> 0]

\* The durations are whole seconds, so the factor NANOS_PER_SEC common to
\* the numerator and the denominator of the ratio is cancelled.
compute_x_booster_amount(cfg, amount, duration_ns) ==
    amount
    + u128_ratio(
          amount,
          (cfg.x_booster_multiplier_at_maximum_staking_duration - MIN_BOOSTER_MULTIPLIER)
              * ((duration_ns \div NANOS_PER_SEC) - cfg.minimum_staking_duration_sec),
          (cfg.maximum_staking_duration_sec - cfg.minimum_staking_duration_sec)
              * MIN_BOOSTER_MULTIPLIER,
          FALSE)

\* the shares and the amount a stake takes from the supplied position
stake_shares(asset, account_shares, amount) ==
    IF IsSome(amount) THEN amount_to_shares(asset.supplied, Unwrap(amount), TRUE)
    ELSE account_shares

stake_amount_ok(asset, account_shares, amount) ==
    IsSome(amount) \/ shares_to_amount_ok(asset.supplied, account_shares)

stake_amount(asset, account_shares, amount) ==
    IF IsSome(amount) THEN Unwrap(amount)
    ELSE shares_to_amount(asset.supplied, account_shares, FALSE)

\* a stake that may shorten a running lock
restake_ok_any(booster_staking, new_unlock_timestamp_ns) == TRUE

\* a running staking may only be extended
restake_ok(booster_staking, new_unlock_timestamp_ns) ==
    IsSome(booster_staking)
        => Unwrap(booster_staking).unlock_timestamp <= new_unlock_timestamp_ns

\* a restake that keeps the smaller of the held and the recomputed xBooster
restaked_to_lower(cfg, booster_staking, new_duration_ns) ==
    IF IsSome(booster_staking)
    THEN [Unwrap(booster_staking) EXCEPT !.x_booster_amount =
             Min(@, compute_x_booster_amount(
                        cfg, Unwrap(booster_staking).staked_booster_amount,
                        new_duration_ns))]
    ELSE NewBoosterStaking

restaked(cfg, booster_staking, new_duration_ns) ==
    IF IsSome(booster_staking)
    THEN [Unwrap(booster_staking) EXCEPT !.x_booster_amount =
             Max(@, compute_x_booster_amount(
                        cfg, Unwrap(booster_staking).staked_booster_amount,
                        new_duration_ns))]
    ELSE NewBoosterStaking

staked(cfg, booster_staking, amount, new_duration_ns, timestamp) ==
    [restaked(cfg, booster_staking, new_duration_ns) EXCEPT
        !.unlock_timestamp = timestamp + new_duration_ns,
        !.staked_booster_amount = @ + amount,
        !.x_booster_amount = @ + compute_x_booster_amount(cfg, amount, new_duration_ns)]

stake_log(token_id, amount, shares, asset) ==
    [op |-> "stake", token_id |-> token_id, amount |-> amount,
     shares |-> shares, pool |-> asset.supplied, asset |-> asset]

\* the staking record is replaced and every potential farm is reassessed
stake_settle(c, account_id, token_id, amount, new_duration_ns) ==
    IF c.failed THEN c
    ELSE IF ~restake_ok(c.mem.acting.booster_staking, c.now + new_duration_ns)
    THEN Fail(c)
    ELSE internal_set_account(
             internal_account_apply_affected_farms(
                 [c EXCEPT !.mem.acting =
                     [@ EXCEPT
                        !.booster_staking =
                            Some(staked(c.config, @, amount, new_duration_ns, c.now)),
                        !.affected_farms =
                            @ \cup get_all_potential_farms(c.mem.acting)
                              \cup {SuppliedFarm(token_id)}]],
                 "acting"),
             account_id, "acting")

stake_withdraw(c, account_id, token_id, asset, account_shares, shares, amount, duration) ==
    IF ~(shares > 0 /\ amount > 0) THEN Fail(c)
    ELSE IF account_shares < shares THEN Fail(c)
    ELSE IF ~pool_withdraw_ok(asset.supplied, shares, amount) THEN Fail(c)
    ELSE stake_settle(
             Log(internal_set_asset(
                     [c EXCEPT !.mem.acting =
                          account_set_asset(@, token_id, account_shares - shares)],
                     token_id,
                     [asset EXCEPT !.supplied = pool_withdraw(@, shares, amount)]),
                 stake_log(token_id, amount, shares, asset)),
             account_id, token_id, amount, sec_to_nano(duration))

stake_sized(c, account_id, token_id, asset, account_shares, amount, duration) ==
    IF ~stake_amount_ok(asset, account_shares, amount) THEN Fail(c)
    ELSE stake_withdraw(c, account_id, token_id, asset, account_shares,
                        stake_shares(asset, account_shares, amount),
                        stake_amount(asset, account_shares, amount), duration)

stake_on(c, account_id, token_id, amount, duration) ==
    IF c.failed THEN c
    ELSE IF token_id \notin DOMAIN c.mem.acting.supplied THEN Fail(c)
    ELSE stake_sized(c, account_id, token_id, CachedAsset(c, token_id),
                     c.mem.acting.supplied[token_id], amount, duration)

account_stake_booster(account_id, amount, duration) ==
    IF ~(/\ duration >= config.minimum_staking_duration_sec
         /\ duration <= config.maximum_staking_duration_sec)
    THEN Fail(NewCtx)
    ELSE stake_on(
             internal_unwrap_asset(
                 internal_unwrap_account(NewCtx, "acting", account_id),
                 config.booster_token_id),
             account_id, config.booster_token_id, amount, duration)

\* the end of an account_stake_booster: the observation keeps the arguments
InvokeStake(ctx, account_id, amount, duration) ==
    /\ Commit(ctx)
    /\ promises' = IF ctx.failed THEN promises ELSE promises \o ctx.sent
    /\ ops' = ops + 1
    /\ last' = [Observation("account_stake_booster", ctx, account_id, NoPrices)
                   EXCEPT !.call = <<[amount |-> amount, duration |-> duration]>>]
    /\ UNCHANGED <<now, probe>>

AccountStakeBooster(account_id, amount, duration) ==
    /\ CanInvoke
    /\ InvokeStake(account_stake_booster(account_id, amount, duration),
                   account_id, amount, duration)

unstake_settle(c, account_id) ==
    IF c.failed THEN c
    ELSE internal_set_account(
             internal_account_apply_affected_farms(
                 [c EXCEPT !.mem.acting.affected_farms =
                              @ \cup get_all_potential_farms(c.mem.acting)],
                 "acting"),
             account_id, "acting")

\* an unstake that does not look at the unlock timestamp
unstake_on_locked(c, account_id) ==
    IF c.failed THEN c
    ELSE IF ~IsSome(c.mem.acting.booster_staking) THEN Fail(c)
    ELSE unstake_settle(
             internal_deposit(
                 [c EXCEPT !.mem.acting.booster_staking = None],
                 "acting", c.config.booster_token_id,
                 Unwrap(c.mem.acting.booster_staking).staked_booster_amount),
             account_id)

unstake_on(c, account_id) ==
    IF c.failed THEN c
    ELSE IF ~IsSome(c.mem.acting.booster_staking) THEN Fail(c)
    ELSE IF Unwrap(c.mem.acting.booster_staking).unlock_timestamp > c.now THEN Fail(c)
    ELSE unstake_settle(
             internal_deposit(
                 [c EXCEPT !.mem.acting.booster_staking = None],
                 "acting", c.config.booster_token_id,
                 Unwrap(c.mem.acting.booster_staking).staked_booster_amount),
             account_id)

account_unstake_booster(account_id) ==
    unstake_on(internal_unwrap_account(NewCtx, "acting", account_id), account_id)

AccountUnstakeBooster(account_id) ==
    /\ CanInvoke
    /\ Invoke(account_unstake_booster(account_id),
              "account_unstake_booster", account_id, NoPrices)

\* account_stake_booster calls: <<account_id, amount, duration>>
StakeCalls ==
    {<<"alice", Some(4), 0>>, <<"alice", Some(4), 1>>, <<"alice", None, 1>>,
     <<"alice", Some(4), 2>>}

\* the block timestamp advances
Tick(d) ==
    /\ CanInvoke
    /\ now' = now + d
    /\ ops' = ops + 1
    /\ last' = [NoObservation EXCEPT !.kind = "tick"]
    /\ UNCHANGED <<persisted, promises, probe>>

TickSteps == {TICK_NANOS, NANOS_PER_MS}
FarmChoices == {SuppliedFarm("A"), NetTvlFarm}
RewardAmounts == {4}
ConfigChoices == {[InitConfig EXCEPT !.force_closing_enabled = FALSE]}

Next ==
    \/ \E c \in ExecuteCalls : Execute(c[1], c[2])
    \/ \E c \in OracleCalls, pb \in PriceValues :
          OracleOnCall(c[1], PriceDataOf(pb), c[2], c[3])
    \/ \E data \in OffPriceData :
          OracleOnCall("alice", data, <<Action("Borrow", Amt("B", 4))>>, FALSE)
    \/ \E c \in DepositCalls, amount \in DepositAmounts :
          FtOnTransfer(c[1], c[2], amount, c[3], c[4])
    \/ \E i \in 1..Len(promises), s \in BOOLEAN : AfterFtTransfer(i, s)
    \/ \E cfg \in ConfigChoices : UpdateConfig(cfg)
    \/ \E f \in FarmChoices, reward_amount \in RewardAmounts :
          AddAssetFarmReward(f, "A", NANOS_PER_DAY_TICKS, 0, reward_amount)
    \/ \E c \in StakeCalls : AccountStakeBooster(c[1], c[2], c[3])
    \/ AccountUnstakeBooster("alice")
    \/ \E d \in TickSteps : Tick(d)

Spec == Init /\ [][Next]_vars

\* The contract two invocations later: 10 A were deposited to the reserve of
\* A, and the owner added a reward of 4 A, one unit per tick, to the farm of
\* the suppliers of A.
FarmOfSuppliers ==
    [block_timestamp |-> NANOS_PER_MS,
     rewards |-> [t \in {"A"} |->
                    [reward_per_day |-> NANOS_PER_DAY_TICKS, booster_log_base |-> 0,
                     remaining_rewards |-> 4, boosted_shares |-> 0,
                     reward_per_share |-> bd_zero]]]

InitFarm ==
    /\ assets = [t \in Tokens |->
                    [NewAsset(NANOS_PER_MS, AssetConfigOf(t)) EXCEPT
                        !.reserved = IF t = "A" THEN 6 ELSE 0]]
    /\ accounts = [a \in AccountIds |-> NewAccount]
    /\ asset_farms = MapInsert(EmptyMap, SuppliedFarm("A"), FarmOfSuppliers)
    /\ inactive_rewards = EmptyMap
    /\ last_prices = EmptyMap
    /\ config = InitConfig
    /\ ft = [a \in AccountIds |-> 0]
    /\ promises = << >>
    /\ now = NANOS_PER_MS
    /\ ops = 0
    /\ last = NoObservation
    /\ probe = NoProbe

SpecFarm == InitFarm /\ [][Next]_vars

-----------------------------------------------------------------------------
(* Behaviours that start with a farm that has a supplier: the reserve of A  *)
(* holds 8 after a reward of 2 A, paid at 2 A per millisecond, was added to *)
(* the farm of the suppliers of A, and alice has supplied 10 A.  The        *)
(* invocations that lead here count as one.                                 *)

FarmOfAlice ==
    [FarmOfSuppliers EXCEPT !.rewards["A"].boosted_shares = 10,
                            !.rewards["A"].remaining_rewards = 2]

\* alice's entry for the farm after her Supply
AccountFarmOfAlice ==
    [block_timestamp |-> NANOS_PER_MS,
     rewards |-> [t \in {"A"} |->
                    [boosted_shares |-> 10, last_reward_per_share |-> bd_zero]]]

InitFarming ==
    /\ assets = [t \in Tokens |->
                    [NewAsset(NANOS_PER_MS, AssetConfigOf(t)) EXCEPT
                        !.reserved = IF t = "A" THEN 8 ELSE 0,
                        !.supplied = IF t = "A" THEN pool_deposit(@, 10, 10) ELSE @]]
    /\ accounts = [a \in AccountIds |->
                      IF a = "alice"
                      THEN [NewAccount EXCEPT
                               !.supplied = MapInsert(@, "A", 10),
                               !.farms = MapInsert(@, SuppliedFarm("A"),
                                                   AccountFarmOfAlice)]
                      ELSE NewAccount]
    /\ asset_farms = MapInsert(EmptyMap, SuppliedFarm("A"), FarmOfAlice)
    /\ inactive_rewards = EmptyMap
    /\ last_prices = EmptyMap
    /\ config = InitConfig
    /\ ft = [a \in AccountIds |-> 0]
    /\ promises = << >>
    /\ now = NANOS_PER_MS
    /\ ops = 1
    /\ last = NoObservation
    /\ probe = NoProbe

SpecFarming == InitFarming /\ [][Next]_vars

-----------------------------------------------------------------------------
(* Behaviours that start with two suppliers in one farm: the reserves hold  *)
(* 8 A and 4 B, the farm of the suppliers of A pays a reward of 2 B at 2 B  *)
(* per millisecond, and alice and bob have supplied 10 A each, all in the   *)
(* block of the construction.  From there the two accounts deposit and      *)
(* withdraw, the owner adds rewards to the farms, and time passes.          *)

FarmOfTwo ==
    [block_timestamp |-> NANOS_PER_MS,
     rewards |-> [t \in {"B"} |->
                    [reward_per_day |-> NANOS_PER_DAY_TICKS, booster_log_base |-> 0,
                     remaining_rewards |-> 2, boosted_shares |-> 20,
                     reward_per_share |-> bd_zero]]]

\* the entry of each of the two for the farm after their Supply
AccountFarmOfTwo ==
    [block_timestamp |-> NANOS_PER_MS,
     rewards |-> [t \in {"B"} |->
                    [boosted_shares |-> 10, last_reward_per_share |-> bd_zero]]]

InitFarmers ==
    /\ assets = [t \in Tokens |->
                    [NewAsset(NANOS_PER_MS, AssetConfigOf(t)) EXCEPT
                        !.reserved = IF t = "A" THEN 8 ELSE IF t = "B" THEN 4 ELSE 0,
                        !.supplied = IF t = "A" THEN pool_deposit(@, 20, 20) ELSE @]]
    /\ accounts = [a \in AccountIds |->
                      IF a \in Users
                      THEN [NewAccount EXCEPT
                               !.supplied = MapInsert(@, "A", 10),
                               !.farms = MapInsert(@, SuppliedFarm("A"),
                                                   AccountFarmOfTwo)]
                      ELSE NewAccount]
    /\ asset_farms = MapInsert(EmptyMap, SuppliedFarm("A"), FarmOfTwo)
    /\ inactive_rewards = EmptyMap
    /\ last_prices = EmptyMap
    /\ config = InitConfig
    /\ ft = [a \in AccountIds |-> 0]
    /\ promises = << >>
    /\ now = NANOS_PER_MS
    /\ ops = 1
    /\ last = NoObservation
    /\ probe = NoProbe

\* execute calls of the two suppliers: <<account_id, actions>>
FarmerCalls ==
    {<<a, <<Action("Withdraw", w)>> >> : a \in Users, w \in {Amt("A", 1), All("A")}}

\* rewards the owner adds: <<farm_id, reward_token_id>>
FarmerRewards ==
    {<<SuppliedFarm("A"), "A">>, <<SuppliedFarm("A"), "B">>, <<SuppliedFarm("B"), "A">>}

NextFarmers ==
    \/ \E c \in FarmerCalls : Execute(c[1], c[2])
    \/ \E a \in Users : FtOnTransfer("A", a, 1, "Supply", << >>)
    \/ \E r \in FarmerRewards : AddAssetFarmReward(r[1], r[2], NANOS_PER_DAY_TICKS, 0, 2)
    \/ Tick(NANOS_PER_MS)

SpecFarmers == InitFarmers /\ [][NextFarmers]_vars

-----------------------------------------------------------------------------
(* Behaviours that start with a debt: alice has deposited 10 A as          *)
(* collateral, bob has supplied 10 B, and alice has borrowed 7 B at a      *)
(* price of 1.  From there the accounts liquidate and force close.         *)

AssetsBorrowed ==
    [t \in Tokens |->
        [NewAsset(NANOS_PER_MS, AssetConfigOf(t)) EXCEPT
            !.supplied = IF t = "A" THEN pool_deposit(@, 10, 10)
                         ELSE IF t = "B" THEN pool_deposit(@, 17, 17) ELSE @,
            !.borrowed = IF t = "B" THEN pool_deposit(@, 7, 7) ELSE @]]

AccountsBorrowed ==
    [a \in AccountIds |->
        IF a = "alice"
        THEN [NewAccount EXCEPT !.collateral = MapInsert(@, "A", 10),
                                !.borrowed = MapInsert(@, "B", 7),
                                !.supplied = MapInsert(@, "B", 7)]
        ELSE IF a = "bob"
        THEN [NewAccount EXCEPT !.supplied = MapInsert(@, "B", 10)]
        ELSE NewAccount]

InitBorrowed ==
    /\ assets = AssetsBorrowed
    /\ accounts = AccountsBorrowed
    /\ asset_farms = EmptyMap
    /\ inactive_rewards = EmptyMap
    /\ last_prices = [t \in {"A", "B"} |-> Price(1)]
    /\ config = InitConfig
    /\ ft = [a \in AccountIds |-> 0]
    /\ promises = << >>
    /\ now = NANOS_PER_MS
    /\ ops = 1
    /\ last = NoObservation
    /\ probe = NoProbe

\* oracle_on_call batches with a Liquidate or a ForceClose:
\* <<sender_id, actions, is_liquidator>>
LiquidationCalls ==
    {<<"bob", <<LiquidateAction("alice", <<Amt("B", 1)>>, <<Amt("A", 1)>>)>>, FALSE>>,
     <<"bob", <<LiquidateAction("alice", << >>, <<Amt("A", 1)>>)>>, FALSE>>,
     <<"bob", <<LiquidateAction("alice", <<Amt("B", 1)>>, << >>)>>, FALSE>>,
     <<"bob", <<LiquidateAction("alice", << >>, << >>)>>, FALSE>>,
     <<"alice", <<LiquidateAction("alice", <<Amt("B", 1)>>, <<Amt("A", 1)>>)>>, FALSE>>,
     <<"alice", <<ForceCloseAction("alice")>>, FALSE>>,
     <<"alice", <<Action("Repay", Amt("B", 1)),
                  LiquidateAction("alice", <<Amt("B", 1)>>, <<Amt("A", 1)>>)>>, FALSE>>,
     <<"bob", <<LiquidateAction("usn", <<Amt("usn", 1)>>, <<Amt("A", 1)>>)>>, TRUE>>,
     <<"bob", <<ForceCloseAction("alice")>>, FALSE>>}

\* execute batches with a Liquidate or a ForceClose, and a withdrawal
LiquidationExecutes ==
    {<<"alice", <<ForceCloseAction("alice")>> >>,
     <<"bob", <<LiquidateAction("alice", <<Amt("B", 1)>>, << >>)>> >>,
     <<"bob", <<Action("Withdraw", Amt("B", 1))>> >>}

NextLiquidation ==
    \/ \E c \in LiquidationCalls, pb \in PriceValues :
          OracleOnCall(c[1], PriceDataOf(pb), c[2], c[3])
    \/ \E c \in LiquidationExecutes : Execute(c[1], c[2])

SpecLiquidation == InitBorrowed /\ [][NextLiquidation]_vars

-----------------------------------------------------------------------------
(* Behaviours that start with a debt in the stable token: alice has        *)
(* deposited 10 A as collateral and borrowed 4 of the stable token, which   *)
(* the account of the token supplied.  Time passes, alice borrows and       *)
(* repays, and the liquidator repays her debt for the account of the token. *)

AssetsUsnBorrowed ==
    [t \in Tokens |->
        [NewAsset(NANOS_PER_MS, AssetConfigOf(t)) EXCEPT
            !.supplied = IF t = "A" THEN pool_deposit(@, 10, 10)
                         ELSE IF t = usn_id THEN pool_deposit(@, 4, 4) ELSE @,
            !.borrowed = IF t = usn_id THEN pool_deposit(@, 4, 4) ELSE @]]

AccountsUsnBorrowed ==
    [a \in AccountIds |->
        IF a = "alice"
        THEN [NewAccount EXCEPT !.collateral = MapInsert(@, "A", 10),
                                !.borrowed = MapInsert(@, usn_id, 4)]
        ELSE IF a = usn_id
        THEN [NewAccount EXCEPT !.supplied = MapInsert(@, usn_id, 4)]
        ELSE NewAccount]

InitUsnBorrowed ==
    /\ assets = AssetsUsnBorrowed
    /\ accounts = AccountsUsnBorrowed
    /\ asset_farms = EmptyMap
    /\ inactive_rewards = EmptyMap
    /\ last_prices = [t \in {"A", "B"} |-> Price(1)]
    /\ config = InitConfig
    /\ ft = [a \in AccountIds |-> IF a = "alice" THEN 4 ELSE 0]
    /\ promises = << >>
    /\ now = NANOS_PER_MS
    /\ ops = 1
    /\ last = NoObservation
    /\ probe = NoProbe

\* oracle_on_call batches on the stable token: <<sender_id, actions, is_liquidator>>
UsnCalls ==
    {<<"bob", <<LiquidateAction("alice", <<Amt(usn_id, 1)>>, <<Amt("A", 1)>>)>>, TRUE>>,
     <<"bob", <<LiquidateAction("alice", <<Amt(usn_id, 3)>>, <<Amt("A", 1)>>)>>, TRUE>>,
     <<"bob", <<LiquidateAction("alice", <<Amt(usn_id, 3)>>, <<Amt("A", 3)>>)>>, TRUE>>,
     <<"bob", <<LiquidateAction("alice", <<Amt(usn_id, 6)>>, <<Amt("A", 4)>>)>>, TRUE>>,
     <<"alice", <<UsnAction("BorrowUsn", 1)>>, FALSE>>,
     <<"alice", <<UsnAction("RepayUsn", 1)>>, FALSE>>,
     <<"alice", <<UsnAction("RepayUsn", 4)>>, FALSE>>}

NextUsn ==
    \/ \E c \in UsnCalls : OracleOnCall(c[1], PriceDataOf(1), c[2], c[3])
    \/ \E d \in TickSteps : Tick(d)

SpecUsn == InitUsnBorrowed /\ [][NextUsn]_vars

-----------------------------------------------------------------------------
(* Behaviours that start with a staking whose lock has run out: alice has   *)
(* supplied 10 A and staked 4 of it for the maximum duration; that duration *)
(* has passed, and a reward of 2 A was then added to the farm of the        *)
(* suppliers of A, which alice has joined with her 6 shares.                *)

\* the staking record after alice's stake of 4 for the maximum duration
StakingOfAlice ==
    staked(InitConfig, None, 4, sec_to_nano(InitConfig.maximum_staking_duration_sec),
           NANOS_PER_MS)

\* the farm of the suppliers of A, added when the lock ran out
FarmOfStaker ==
    [FarmOfSuppliers EXCEPT !.block_timestamp = StakingOfAlice.unlock_timestamp,
                            !.rewards["A"].boosted_shares = 6,
                            !.rewards["A"].remaining_rewards = 2]

\* the stored records after alice's Supply of 10 A and her stake
AssetsStaked ==
    [t \in Tokens |->
        IF t = "A"
        THEN [NewAsset(StakingOfAlice.unlock_timestamp, AssetConfigOf(t)) EXCEPT
                 !.supplied = pool_deposit(@, 6, 6)]
        ELSE NewAsset(NANOS_PER_MS, AssetConfigOf(t))]

AccountsStaked ==
    [a \in AccountIds |->
        IF a = "alice"
        THEN [NewAccount EXCEPT
                 !.supplied = MapInsert(@, "A", 6),
                 !.farms = MapInsert(@, SuppliedFarm("A"),
                     [block_timestamp |-> StakingOfAlice.unlock_timestamp,
                      rewards |-> [t \in {"A"} |->
                          [boosted_shares |-> 6, last_reward_per_share |-> bd_zero]]]),
                 !.booster_staking = Some(StakingOfAlice)]
        ELSE NewAccount]

InitStaked ==
    /\ assets = AssetsStaked
    /\ accounts = AccountsStaked
    /\ asset_farms = MapInsert(EmptyMap, SuppliedFarm("A"), FarmOfStaker)
    /\ inactive_rewards = EmptyMap
    /\ last_prices = EmptyMap
    /\ config = InitConfig
    /\ ft = [a \in AccountIds |-> 0]
    /\ promises = << >>
    /\ now = StakingOfAlice.unlock_timestamp
    /\ ops = 1
    /\ last = NoObservation
    /\ probe = NoProbe

SpecStake == InitStaked /\ [][Next]_vars

-----------------------------------------------------------------------------
(* Behaviours that start with the booster token lent out: alice has        *)
(* supplied 10 A, bob has deposited 10 B as collateral, borrowed 6 A and    *)
(* withdrawn them.  From there alice stakes, unstakes and withdraws.        *)

AssetsLent ==
    [t \in Tokens |->
        [NewAsset(NANOS_PER_MS, AssetConfigOf(t)) EXCEPT
            !.supplied = IF t \in {"A", "B"} THEN pool_deposit(@, 10, 10) ELSE @,
            !.borrowed = IF t = "A" THEN pool_deposit(@, 6, 6) ELSE @]]

AccountsLent ==
    [a \in AccountIds |->
        IF a = "alice"
        THEN [NewAccount EXCEPT !.supplied = MapInsert(@, "A", 10)]
        ELSE IF a = "bob"
        THEN [NewAccount EXCEPT !.collateral = MapInsert(@, "B", 10),
                                !.borrowed = MapInsert(@, "A", 6)]
        ELSE NewAccount]

InitLent ==
    /\ assets = AssetsLent
    /\ accounts = AccountsLent
    /\ asset_farms = EmptyMap
    /\ inactive_rewards = EmptyMap
    /\ last_prices = [t \in {"A", "B"} |-> Price(1)]
    /\ config = InitConfig
    /\ ft = [a \in AccountIds |-> 0]
    /\ promises = << >>
    /\ now = NANOS_PER_MS
    /\ ops = 1
    /\ last = NoObservation
    /\ probe = NoProbe

NextLent ==
    \/ \E c \in StakeCalls : AccountStakeBooster(c[1], c[2], c[3])
    \/ AccountUnstakeBooster("alice")
    \/ \E c \in ExecuteCalls : Execute(c[1], c[2])
    \/ \E d \in TickSteps : Tick(d)

SpecLent == InitLent /\ [][NextLent]_vars

-----------------------------------------------------------------------------
(* Behaviours that start with two accounts in one pool: alice has          *)
(* deposited 10 A as collateral and borrowed 6 B; bob has deposited 10 B as *)
(* collateral.  From there time passes and both accounts borrow, repay,     *)
(* deposit and withdraw B.                                                  *)

AssetsShared ==
    [t \in Tokens |->
        [NewAsset(NANOS_PER_MS, AssetConfigOf(t)) EXCEPT
            !.supplied = IF t = "A" THEN pool_deposit(@, 10, 10)
                         ELSE IF t = "B" THEN pool_deposit(@, 16, 16) ELSE @,
            !.borrowed = IF t = "B" THEN pool_deposit(@, 6, 6) ELSE @]]

AccountsShared ==
    [a \in AccountIds |->
        IF a = "alice"
        THEN [NewAccount EXCEPT !.collateral = MapInsert(@, "A", 10),
                                !.borrowed = MapInsert(@, "B", 6),
                                !.supplied = MapInsert(@, "B", 6)]
        ELSE IF a = "bob"
        THEN [NewAccount EXCEPT !.collateral = MapInsert(@, "B", 10)]
        ELSE NewAccount]

InitShared ==
    /\ assets = AssetsShared
    /\ accounts = AccountsShared
    /\ asset_farms = EmptyMap
    /\ inactive_rewards = EmptyMap
    /\ last_prices = [t \in {"A", "B"} |-> Price(1)]
    /\ config = InitConfig
    /\ ft = [a \in AccountIds |-> 0]
    /\ promises = << >>
    /\ now = NANOS_PER_MS
    /\ ops = 1
    /\ last = NoObservation
    /\ probe = NoProbe

\* oracle_on_call batches of the two accounts on B: <<sender_id, actions>>
SharedCalls ==
    {<<"bob", <<Action("Borrow", Amt("B", 1))>> >>,
     <<"bob", <<Action("Borrow", Amt("B", 3))>> >>,
     <<"bob", <<Action("Borrow", Amt("B", 5))>> >>,
     <<"bob", <<Action("Repay", Amt("B", 1))>> >>,
     <<"bob", <<Action("Repay", All("B"))>> >>,
     <<"bob", <<Action("Withdraw", Amt("B", 1))>> >>,
     <<"bob", <<Action("Withdraw", All("B"))>> >>,
     <<"bob", <<Action("DecreaseCollateral", Amt("B", 1))>> >>,
     <<"bob", <<Action("IncreaseCollateral", All("B"))>> >>,
     <<"alice", <<Action("Repay", Amt("B", 1))>> >>,
     <<"alice", <<Action("Withdraw", Amt("B", 1))>> >>,
     <<"alice", <<Action("Withdraw", All("B"))>> >>}

NextShared ==
    \/ \E c \in SharedCalls : OracleOnCall(c[1], PriceDataOf(1), c[2], FALSE)
    \/ FtOnTransfer("B", "bob", 1, "Supply", << >>)
    \/ Tick(NANOS_PER_MS)

SpecShared == InitShared /\ [][NextShared]_vars

-----------------------------------------------------------------------------
(* The owner's calls: add_asset, update_asset and update_config, next to    *)
(* deposits that fill an asset and the time that passes.                    *)

\* Burrow::add_asset; asset_ids is the domain of assets
add_asset(token_id, asset_config) ==
    IF ~asset_config_assert_valid(asset_config) THEN Fail(NewCtx)
    ELSE IF token_id \in DOMAIN assets THEN Fail(NewCtx)
    ELSE internal_set_asset(NewCtx, token_id, NewAsset(now, asset_config))

AddAsset(token_id, asset_config) ==
    /\ CanInvoke
    /\ InvokeOwner(add_asset(token_id, asset_config), "add_asset",
                   [token_id |-> token_id, asset_config |-> asset_config])

\* an update that lets the extra decimals change whatever the balances
extra_decimals_ok_any(asset, asset_config) == TRUE

\* the assert of update_asset on a change of extra_decimals
extra_decimals_ok(asset, asset_config) ==
    asset.config.extra_decimals # asset_config.extra_decimals
        => /\ asset.borrowed.balance = 0
           /\ asset.supplied.balance = 0
           /\ asset.reserved = 0

update_asset_on(c, token_id, asset_config) ==
    IF c.failed THEN c
    ELSE IF ~extra_decimals_ok(CachedAsset(c, token_id), asset_config) THEN Fail(c)
    ELSE internal_set_asset(c, token_id,
             [CachedAsset(c, token_id) EXCEPT !.config = asset_config])

\* Burrow::update_asset
update_asset(token_id, asset_config) ==
    IF ~asset_config_assert_valid(asset_config) THEN Fail(NewCtx)
    ELSE update_asset_on(internal_unwrap_asset(NewCtx, token_id), token_id,
                         asset_config)

UpdateAsset(token_id, asset_config) ==
    /\ CanInvoke
    /\ InvokeOwner(update_asset(token_id, asset_config), "update_asset",
                   [token_id |-> token_id, asset_config |-> asset_config])

\* a listed token and one that is not listed
OwnerTokens == {"A", "C"}

\* asset configs of the owner's calls: two that are valid, one of them with
\* other extra decimals, and one for every assert of assert_valid
AssetConfigChoices ==
    {[AssetConfigOf("B") EXCEPT !.reserve_ratio = MAX_RATIO],
     [AssetConfigOf("B") EXCEPT !.extra_decimals = 1],
     [AssetConfigOf("B") EXCEPT !.reserve_ratio = MAX_RATIO + 1],
     [AssetConfigOf("B") EXCEPT !.target_utilization = MAX_POS],
     [AssetConfigOf("B") EXCEPT !.target_utilization_rate = 301],
     [AssetConfigOf("B") EXCEPT !.volatility_ratio = MAX_RATIO]}

\* configs of update_config: one that is valid and one for every assert
OwnerConfigs ==
    {[InitConfig EXCEPT !.max_num_assets = 3],
     [InitConfig EXCEPT !.minimum_staking_duration_sec = 1],
     [InitConfig EXCEPT !.x_booster_multiplier_at_maximum_staking_duration =
                            MIN_BOOSTER_MULTIPLIER - 1]}

\* deposits that fill the supplied pool or the reserve of A
OwnerDeposits ==
    {<<"A", "alice", "Supply", << >> >>, <<"A", "bob", "DepositToReserve", << >> >>}

NextOwner ==
    \/ \E token_id \in OwnerTokens, asset_config \in AssetConfigChoices :
          AddAsset(token_id, asset_config)
    \/ \E token_id \in OwnerTokens, asset_config \in AssetConfigChoices :
          UpdateAsset(token_id, asset_config)
    \/ \E cfg \in OwnerConfigs : UpdateConfig(cfg)
    \/ \E c \in OwnerDeposits, amount \in DepositAmounts :
          FtOnTransfer(c[1], c[2], amount, c[3], c[4])
    \/ Tick(NANOS_PER_MS)

SpecOwner == Init /\ [][NextOwner]_vars

-----------------------------------------------------------------------------
(* The share conversions of pool.rs on their own: a pool and an amount are *)
(* drawn, and a round trip through both conversions is applied.            *)

PoolStates ==
    [shares : 0..MaxPoolShares, balance : 0..MaxPoolBalance, usn_interest : {0}]

InitPool ==
    /\ assets = [t \in Tokens |-> NewAsset(NANOS_PER_MS, AssetConfigOf(t))]
    /\ accounts = [a \in AccountIds |-> NewAccount]
    /\ asset_farms = EmptyMap
    /\ inactive_rewards = EmptyMap
    /\ last_prices = EmptyMap
    /\ config = InitConfig
    /\ ft = [a \in AccountIds |-> 0]
    /\ promises = << >>
    /\ now = NANOS_PER_MS
    /\ ops = 0
    /\ last = NoObservation
    /\ probe \in [kind : {"pool"}, pool : PoolStates, amount : 0..MaxProbeAmount]

\* amount -> shares -> amount; ok is FALSE when shares_to_amount panics
round_trip(pool, amount, shares, round_up) ==
    [kind |-> "round_trip", pool |-> pool, amount |-> amount,
     round_up |-> round_up, shares |-> shares,
     ok |-> shares_to_amount_ok(pool, shares),
     back |-> IF shares_to_amount_ok(pool, shares)
              THEN shares_to_amount(pool, shares, ~round_up)
              ELSE 0]

\* shares_to_amount(amount_to_shares(amount, round_up), !round_up)
RoundTrip(round_up) ==
    /\ probe.kind = "pool"
    /\ probe' = round_trip(probe.pool, probe.amount,
                           amount_to_shares(probe.pool, probe.amount, round_up),
                           round_up)
    /\ UNCHANGED <<persisted, promises, now, ops, last>>

NextPool == \E round_up \in BOOLEAN : RoundTrip(round_up)

SpecPool == InitPool /\ [][NextPool]_vars

-----------------------------------------------------------------------------
(* asset.rs and asset_config.rs on their own: an asset is drawn and is     *)
(* compounded and updated while the clock advances; a configuration and    *)
(* two utilizations are drawn and their rates are computed.                *)

\* empty pools, and pools of one share worth 1..MaxAssetBalance
AssetPools ==
    {p \in [shares : {0, 1}, balance : 0..MaxAssetBalance, usn_interest : {0}] :
        p.shares = 0 <=> p.balance = 0}

\* <<target_utilization_rate, max_utilization_rate>>, BigDecimal values
RateChoices == {<<150, 300>>, <<100, 100>>, <<50, 50>>}

\* the configurations add_asset accepts
ProbeConfigs ==
    {c \in {[AssetConfigOf("A") EXCEPT !.target_utilization_rate = r[1],
                                       !.max_utilization_rate = r[2],
                                       !.reserve_ratio = rr] :
               r \in RateChoices, rr \in {2500, MAX_RATIO}} :
        asset_config_assert_valid(c)}

\* assets whose debt is covered by the supplied balance and the reserve
AssetStates ==
    {a \in [supplied : AssetPools, borrowed : AssetPools, reserved : 0..MaxAssetBalance,
            last_update_timestamp : {NANOS_PER_MS}, config : ProbeConfigs] :
        available_amount(a) >= 0}

AssetProbe(token_id, asset) ==
    [kind |-> "asset", token_id |-> token_id, asset |-> asset, op |-> "none",
     before |-> asset, ok |-> TRUE, timestamp |-> NANOS_PER_MS, time_diff_ms |-> 0]

\* <<borrowed_balance, total_supplied_balance>>
UtilizationPoints ==
    {<<0, 0>>}
    \cup {<<b, MaxRateSupplied>> : b \in {0, 1, 40, 79, 80, 81, 99, MaxRateSupplied}}
    \cup {<<b, 50>> : b \in {0, 25, 40, 41, 50}}

RateProbes ==
    [kind : {"rate"}, token_id : {"A", usn_id}, config : ProbeConfigs,
     lo : UtilizationPoints, hi : UtilizationPoints, op : {"none"}]

\* assets as an operation leaves them in memory, before they are stored
MemoryPools == [shares : {0, 1}, balance : 0..MaxAssetBalance, usn_interest : {0}]

MemoryAssets ==
    [supplied : MemoryPools, borrowed : MemoryPools, reserved : 0..MaxAssetBalance,
     last_update_timestamp : {NANOS_PER_MS}, config : {AssetConfigOf("A")}]

SetProbes ==
    [kind : {"set"}, token_id : {"A", usn_id}, asset : MemoryAssets, op : {"none"},
     ok : {TRUE}]

InitAsset ==
    /\ assets = [t \in Tokens |-> NewAsset(NANOS_PER_MS, AssetConfigOf(t))]
    /\ accounts = [a \in AccountIds |-> NewAccount]
    /\ asset_farms = EmptyMap
    /\ inactive_rewards = EmptyMap
    /\ last_prices = EmptyMap
    /\ config = InitConfig
    /\ ft = [a \in AccountIds |-> 0]
    /\ promises = << >>
    /\ now = NANOS_PER_MS
    /\ ops = 0
    /\ last = NoObservation
    /\ probe \in {AssetProbe(t, a) : t \in {"A", usn_id}, a \in AssetStates}
                 \cup RateProbes \cup SetProbes

\* the drawn asset, or what it has become, is still within the drawn sizes
AssetInBounds ==
    /\ probe.kind = "asset"
    /\ probe.asset.borrowed.balance <= MaxAssetBalance
    /\ probe.asset.supplied.balance <= MaxAssetBalance
    /\ probe.asset.reserved <= MaxAssetBalance
    /\ probe.asset.borrowed.usn_interest <= MaxAssetBalance

\* the block timestamp advances
Elapse(d) ==
    /\ probe.kind = "asset"
    /\ now + d <= NANOS_PER_MS + ms_to_nano(MaxElapsedMs)
    /\ now' = now + d
    /\ UNCHANGED <<persisted, promises, ops, last, probe>>

\* Asset::compound(time_diff_ms); a panic leaves the asset as it was
Compound(time_diff_ms) ==
    /\ AssetInBounds
    /\ probe' = [probe EXCEPT
                    !.op = "compound", !.before = probe.asset,
                    !.ok = compound_ok(probe.asset, time_diff_ms, probe.token_id),
                    !.timestamp = now, !.time_diff_ms = time_diff_ms,
                    !.asset = IF compound_ok(probe.asset, time_diff_ms, probe.token_id)
                              THEN compound(probe.asset, time_diff_ms, probe.token_id)
                              ELSE probe.asset]
    /\ UNCHANGED <<persisted, promises, now, ops, last>>

\* Asset::update at the block timestamp
AssetUpdate ==
    /\ AssetInBounds
    /\ probe' = [probe EXCEPT
                    !.op = "update", !.before = probe.asset,
                    !.ok = asset_update_ok(probe.asset, probe.token_id, now),
                    !.timestamp = now,
                    !.time_diff_ms = nano_to_ms(now - probe.asset.last_update_timestamp),
                    !.asset = IF asset_update_ok(probe.asset, probe.token_id, now)
                              THEN asset_update(probe.asset, probe.token_id, now)
                              ELSE probe.asset]
    /\ UNCHANGED <<persisted, promises, now, ops, last>>

\* the rate of one utilization point; ok is FALSE when get_rate panics
rate_of(c, point, token_id) ==
    [ok |-> get_rate_ok(c, point[1], point[2], token_id),
     rate |-> get_rate(c, point[1], point[2], token_id)]

\* AssetConfig::get_rate at both drawn utilizations
GetRate ==
    /\ probe.kind = "rate" /\ probe.op = "none"
    /\ probe' = [kind |-> "rate", token_id |-> probe.token_id, config |-> probe.config,
                 lo |-> probe.lo, hi |-> probe.hi, op |-> "get_rate",
                 rate_lo |-> rate_of(probe.config, probe.lo, probe.token_id),
                 rate_hi |-> rate_of(probe.config, probe.hi, probe.token_id)]
    /\ UNCHANGED <<persisted, promises, now, ops, last>>

\* Burrow::internal_set_asset of the drawn asset; a panic stores nothing
SetAssetEnds(c) ==
    /\ assets' = IF c.failed THEN assets ELSE c.assets
    /\ probe' = [probe EXCEPT !.op = "set", !.ok = ~c.failed]
    /\ UNCHANGED <<accounts, asset_farms, inactive_rewards, last_prices, config, ft,
                   promises, now, ops, last>>

SetAsset ==
    /\ probe.kind = "set" /\ probe.op = "none"
    /\ SetAssetEnds(internal_set_asset(NewCtx, probe.token_id, probe.asset))

NextAsset ==
    \/ \E d \in TickSteps : Elapse(d)
    \/ \E time_diff_ms \in 0..MaxElapsedMs : Compound(time_diff_ms)
    \/ AssetUpdate
    \/ GetRate
    \/ SetAsset

SpecAsset == InitAsset /\ [][NextAsset]_vars

-----------------------------------------------------------------------------
(* Properties *)

\* the records of one kind in the log of the last invocation
Records(obs, op) == {obs.log[i] : i \in {j \in DOMAIN obs.log : obs.log[j].op = op}}

HasAction(obs, kinds) == \E i \in DOMAIN obs.actions : obs.actions[i].kind \in kinds

\* the max discount of a stored account at the prices of the last invocation
MaxDiscountLast(account_id) == MaxDiscountOf(account_id, last.prices)

\* C1: after every successful operation both pools of every stored asset
\* hold balance >= shares
C1_PoolBalanceCoversShares ==
    \A t \in DOMAIN assets :
        /\ assets[t].supplied.balance >= assets[t].supplied.shares
        /\ assets[t].borrowed.balance >= assets[t].borrowed.shares

\* a successful operation on an asset whose borrowed pool has compounded
C1_Witness ==
    /\ last.ok /\ last.log # << >>
    /\ \E t \in DOMAIN assets :
          /\ assets[t].borrowed.shares > 0
          /\ assets[t].borrowed.balance > assets[t].borrowed.shares
          /\ assets[t].supplied.shares > 0
          /\ \E i \in DOMAIN last.log : last.log[i].token_id = t

LiquidateHolds(r, before, after) ==
    /\ after < before
    /\ after > bd_zero
    /\ bd_mul(r.taken_sum, bd_one - before) <= r.repaid_sum

\* C2: a successful Liquidate leaves the target's max discount, at the
\* call's prices, below its value before the liquidation and above zero, and
\* the value taken times (1 - the discount before) is at most the value
\* repaid
C2_LiquidateReducesDiscount ==
    (last.ok /\ HasAction(last, {"Liquidate"})) =>
        /\ Records(last, "liquidate") # {}
        /\ \A r \in Records(last, "liquidate") :
              /\ r.account_id = last.actions[1].account_id
              /\ LiquidateHolds(r, r.max_discount, MaxDiscountLast(r.account_id))

\* a liquidation that was accepted
C2_Witness ==
    /\ last.ok
    /\ \E r \in Records(last, "liquidate") :
          r.taken_sum > bd_zero /\ r.repaid_sum > bd_zero

RiskyKinds == {"Borrow", "BorrowUsn", "DecreaseCollateral"}

\* C3: after a successful batch with a Borrow, BorrowUsn or
\* DecreaseCollateral action the acting account's max discount at the
\* batch's prices is zero
C3_RiskyBatchEndsCovered ==
    (last.ok /\ HasAction(last, RiskyKinds))
        => MaxDiscountLast(last.account_id) = bd_zero

\* a successful batch that borrowed against collateral
C3_Witness ==
    /\ last.ok /\ HasAction(last, RiskyKinds)
    /\ accounts[last.account_id].borrowed # EmptyMap
    /\ accounts[last.account_id].collateral # EmptyMap

AvailableBefore(r) ==
    r.asset.supplied.balance + r.asset.reserved - r.asset.borrowed.balance

\* C4: every successful Withdraw and Borrow moves at most the asset's
\* supplied.balance + reserved - borrowed.balance as it was before the action
C4_MovesAtMostAvailable ==
    \A r \in Records(last, "withdraw") \cup Records(last, "borrow") :
        r.amount <= AvailableBefore(r)

\* a successful Borrow of a part of the available amount
C4_Witness ==
    /\ last.ok
    /\ \E r \in Records(last, "borrow") :
          r.asset.borrowed.balance > 0 /\ r.amount < AvailableBefore(r)

\* the worth of shares against an amount at the pool's rate before the
\* operation, compared without division
WorthAtMost(r) ==
    IF r.pool.balance = 0 THEN r.shares <= r.amount
    ELSE r.shares * r.pool.balance <= r.amount * r.pool.shares

WorthAtLeast(r) ==
    IF r.pool.balance = 0 THEN r.shares >= r.amount
    ELSE r.shares * r.pool.balance >= r.amount * r.pool.shares

C7_RoundTripAsStated ==
    probe.kind = "round_trip" =>
        /\ probe.ok
        /\ probe.round_up => probe.back <= probe.amount
        /\ ~probe.round_up => probe.amount <= probe.back

\* C7: for a pool with 0 < shares <= balance and an amount <= balance no
\* conversion aborts, rounding the shares down and the amount up gives at
\* most the amount, and rounding the shares up and the amount down gives at
\* least the amount
C7_RoundTripBrackets ==
    (/\ probe.kind = "round_trip"
     /\ 0 < probe.pool.shares
     /\ probe.pool.shares <= probe.pool.balance
     /\ probe.amount <= probe.pool.balance) =>
        /\ probe.ok
        /\ ~probe.round_up => probe.back <= probe.amount
        /\ probe.round_up => probe.amount <= probe.back

\* a round trip that loses to rounding in a pool worth more than its shares
C7_Witness ==
    /\ probe.kind = "round_trip"
    /\ 0 < probe.pool.shares
    /\ probe.pool.shares < probe.pool.balance
    /\ probe.amount <= probe.pool.balance
    /\ probe.round_up
    /\ probe.amount < probe.back

\* the asset as an invocation at the current block reads it
ReadAsset(token_id) == CachedAsset(internal_unwrap_asset(NewCtx, token_id), token_id)

ReadPrice(prices, token_id) == get_unwrap(prices, token_id)

\* the value the statement gives a collateral position: the balance of its
\* own shares, times the price, times the volatility ratio
StatedCollateralValue(token_id, shares, prices) ==
    bd_mul_ratio(
        bd_from_balance_price(
            shares_to_amount(ReadAsset(token_id).supplied, shares, FALSE),
            ReadPrice(prices, token_id), ReadAsset(token_id).config.extra_decimals),
        ReadAsset(token_id).config.volatility_ratio)

\* the value the statement gives a debt: the balance of its own shares,
\* times the price, divided by the volatility ratio
StatedBorrowedValue(token_id, shares, prices) ==
    bd_div_ratio(
        bd_from_balance_price(
            shares_to_amount(ReadAsset(token_id).borrowed, shares, TRUE),
            ReadPrice(prices, token_id), ReadAsset(token_id).config.extra_decimals),
        ReadAsset(token_id).config.volatility_ratio)

StatedCollateralSum(account, prices) ==
    SumOver(DOMAIN account.collateral,
        [t \in DOMAIN account.collateral |->
            StatedCollateralValue(t, account.collateral[t], prices)])

StatedBorrowedSum(account, prices) ==
    SumOver(DOMAIN account.borrowed,
        [t \in DOMAIN account.borrowed |->
            StatedBorrowedValue(t, account.borrowed[t], prices)])

StatedDiscount(collateral, borrowed) ==
    IF borrowed <= collateral THEN bd_zero
    ELSE bd_div(bd_div(borrowed - collateral, borrowed), bd_from(2))

DiscountAsStated(c, account, prices) ==
    /\ collateral_sum_of(c, account, prices) = StatedCollateralSum(account, prices)
    /\ borrowed_sum_of(c, account, prices) = StatedBorrowedSum(account, prices)
    /\ compute_max_discount(c, account, prices)
           = StatedDiscount(StatedCollateralSum(account, prices),
                            StatedBorrowedSum(account, prices))

DiscountInRange(d) == bd_zero <= d /\ d <= bd_one \div 2

\* prices an oracle call can carry
ProbePrices == {PriceDataOf(pb).prices : pb \in PriceValues}

\* C8: compute_max_discount is zero without debts or when the borrowed value
\* is at most the collateral value, else (borrowed - collateral) / borrowed
\* / 2, the two values summed from each token's own share-derived balance;
\* the result is within [0, 1/2]
C8_MaxDiscountAsStated ==
    \A a \in AccountIds, prices \in ProbePrices :
        (accounts[a].borrowed # EmptyMap /\ ~DiscountCtx(a, prices).failed) =>
            /\ DiscountAsStated(DiscountCtx(a, prices), accounts[a], prices)
            /\ DiscountInRange(MaxDiscountOf(a, prices))

\* C8, the part of the statement the computation meets: zero without debts,
\* and always within [0, 1/2]
C8_MaxDiscountRange ==
    \A a \in AccountIds, prices \in ProbePrices :
        ~DiscountCtx(a, prices).failed =>
            /\ DiscountInRange(MaxDiscountOf(a, prices))
            /\ accounts[a].borrowed = EmptyMap => MaxDiscountOf(a, prices) = bd_zero

\* the value of the target's collateral as ForceClose seizes it
SeizedAmount(account, token_id) ==
    IF token_id \in DOMAIN account.collateral
    THEN shares_to_amount(ReadAsset(token_id).supplied,
                          account.collateral[token_id], FALSE)
    ELSE 0

WrittenOffAmount(account, token_id) ==
    shares_to_amount(ReadAsset(token_id).borrowed, account.borrowed[token_id], TRUE)

TotalCollateralValue(account, prices) ==
    SumOver(DOMAIN account.collateral,
        [t \in DOMAIN account.collateral |->
            bd_from_balance_price(SeizedAmount(account, t), ReadPrice(prices, t),
                                  ReadAsset(t).config.extra_decimals)])

TotalBorrowedValue(account, prices) ==
    SumOver(DOMAIN account.borrowed,
        [t \in DOMAIN account.borrowed |->
            bd_from_balance_price(WrittenOffAmount(account, t), ReadPrice(prices, t),
                                  ReadAsset(t).config.extra_decimals)])

\* the conditions of a ForceClose of the account, on the state before it
ForceCloseConditions(account, prices) ==
    /\ config.force_closing_enabled
    /\ TotalBorrowedValue(account, prices) > TotalCollateralValue(account, prices)
    /\ \A t \in DOMAIN account.borrowed :
          ReadAsset(t).reserved + SeizedAmount(account, t)
              >= WrittenOffAmount(account, t)

\* C9: a ForceClose succeeds only if force closing is enabled, the target's
\* borrowed value exceeds its collateral value and every reserve, with the
\* seized collateral in it, covers the debt written off; then the target has
\* no collateral and no debts; a ForceClose that fails changes nothing
C9_ForceClose ==
    [][HasAction(last', {"ForceClose"}) =>
          IF last'.ok
          THEN \A a \in AccountIds :
                   last'.actions[1].account_id = a =>
                       /\ ForceCloseConditions(accounts[a], last'.prices)
                       /\ accounts'[a].collateral = EmptyMap
                       /\ accounts'[a].borrowed = EmptyMap
          ELSE persisted' = persisted]_vars

\* a ForceClose that seized collateral and wrote a debt off
C9_Witness ==
    /\ last.ok
    /\ \E r \in Records(last, "force_close") :
          /\ r.collateral_sum > bd_zero
          /\ r.written_off # {}
          /\ accounts[r.account_id].collateral = EmptyMap
          /\ accounts[r.account_id].borrowed = EmptyMap

\* the boosted shares of an account in a farm, per reward token
BoostedShares(farms, farm_id) ==
    IF farm_id \in DOMAIN farms
    THEN [t \in DOMAIN farms[farm_id].rewards |->
             farms[farm_id].rewards[t].boosted_shares]
    ELSE EmptyMap

Reassessed(account_id, farm_id) ==
    internal_account_apply_affected_farms(
        [internal_unwrap_account(NewCtx, "acting", account_id) EXCEPT
            !.mem["acting"] = add_affected_farm(@, farm_id)],
        "acting")

SameBoostedShares(c, account_id, farm_id) ==
    c.failed \/ BoostedShares(c.mem["acting"].farms, farm_id)
                    = BoostedShares(accounts[account_id].farms, farm_id)

\* the boosted shares of the account in the farm are those a reassessment
\* of the stored account gives
FarmReassessed(account_id, farm_id) ==
    SameBoostedShares(Reassessed(account_id, farm_id), account_id, farm_id)

Recredited(p, before, after, shares_before, shares_after) ==
    /\ after.supplied.balance = before.supplied.balance + p.amount
    /\ shares_after
           = shares_before + amount_to_shares(before.supplied, p.amount, FALSE)

\* C10: the callback of a failed transfer re-credits exactly the withdrawn
\* amount to the account's supplied position and leaves its boosted shares
\* in the supplied farm of the token reassessed; the callback of a
\* successful transfer changes nothing
C10_CallbackRestores ==
    /\ [][(last'.kind = "after_ft_transfer" /\ last'.ok) =>
             IF last'.promise_success
             THEN persisted' = persisted
             ELSE \A a \in AccountIds, t \in Tokens :
                      (last'.promise[1].account_id = a
                       /\ last'.promise[1].token_id = t) =>
                          Recredited(last'.promise[1], ReadAsset(t), assets'[t],
                              account_asset_or_default(accounts[a], t),
                              account_asset_or_default(accounts'[a], t))]_vars
    /\ []((last.kind = "after_ft_transfer" /\ last.ok /\ ~last.promise_success) =>
             FarmReassessed(last.promise[1].account_id,
                            SuppliedFarm(last.promise[1].token_id)))

\* C10 without the reassessment: the re-credit and the successful callback
C10_CallbackRecredits ==
    [][(last'.kind = "after_ft_transfer" /\ last'.ok) =>
          IF last'.promise_success
          THEN persisted' = persisted
          ELSE \A a \in AccountIds, t \in Tokens :
                   (last'.promise[1].account_id = a
                    /\ last'.promise[1].token_id = t) =>
                       Recredited(last'.promise[1], ReadAsset(t), assets'[t],
                           account_asset_or_default(accounts[a], t),
                           account_asset_or_default(accounts'[a], t))]_vars

-----------------------------------------------------------------------------
(* Farm marking and settlement *)

BatchKinds == {"execute", "oracle_on_call", "ft_on_transfer"}

\* the account a settlement pass of the observed invocation is for
PassAccountId(obs, pass) ==
    IF pass.who = "acting" THEN obs.account_id
    ELSE obs.actions[pass.applied + 1].account_id

SharesOf(map, token_id) == MapGet(map, token_id, 0)

SuppliedMarked(pass, before, t) ==
    (\/ SharesOf(before.supplied, t) # SharesOf(pass.account.supplied, t)
     \/ SharesOf(before.collateral, t) # SharesOf(pass.account.collateral, t))
        => SuppliedFarm(t) \in pass.affected_farms

BorrowedMarked(pass, before, t) ==
    SharesOf(before.borrowed, t) # SharesOf(pass.account.borrowed, t)
        => BorrowedFarm(t) \in pass.affected_farms

\* C11: when the settlement pass of an account starts, every token whose
\* supplied or collateral shares the batch changed has its Supplied farm,
\* and every token whose borrowed shares it changed has its Borrowed farm,
\* in the account's affected farms
C11_ChangedSharesAreMarked ==
    [][(last'.ok /\ last'.kind \in BatchKinds) =>
          \A i \in DOMAIN last'.passes : \A t \in Tokens :
              /\ SuppliedMarked(last'.passes[i],
                                accounts[PassAccountId(last', last'.passes[i])], t)
              /\ BorrowedMarked(last'.passes[i],
                                accounts[PassAccountId(last', last'.passes[i])], t)]_vars

\* C11 for every farm but the Borrowed farm of the stable token
C11_MarkedButUsnBorrowed ==
    [][(last'.ok /\ last'.kind \in BatchKinds) =>
          \A i \in DOMAIN last'.passes : \A t \in Tokens :
              /\ SuppliedMarked(last'.passes[i],
                                accounts[PassAccountId(last', last'.passes[i])], t)
              /\ ~is_usn(t) =>
                    BorrowedMarked(last'.passes[i],
                                   accounts[PassAccountId(last', last'.passes[i])], t)]_vars

-----------------------------------------------------------------------------
(* One settlement per batch, sized by the final position *)

\* the settlement passes of the acting account in an observation
ActingPasses(obs) == {i \in DOMAIN obs.passes : obs.passes[i].who = "acting"}

\* the position size the second loop of the pass reads for a farm, computed
\* from an account as it is persisted
FinalShares(account, farm_id) ==
    IF farm_id[1] = "Supplied" THEN get_supplied_shares(account, farm_id[2])
    ELSE IF farm_id[1] = "Borrowed" THEN get_borrowed_shares(account, farm_id[2])
    ELSE net_tvl_shares(load_assets(NewCtx, net_tvl_tokens(NewCtx, account)), account)

\* the farm entry of the account holds, for every reward, the boosted shares
\* of `shares`; a position of zero leaves no entry
StoresBoosted(account, farm_id, shares) ==
    IF shares > 0
    THEN /\ farm_id \in DOMAIN account.farms
         /\ farm_id \in DOMAIN asset_farms
         /\ \A t \in DOMAIN account.farms[farm_id].rewards :
               /\ t \in DOMAIN asset_farms[farm_id].rewards
               /\ account.farms[farm_id].rewards[t].boosted_shares =
                      shares + booster_extra_shares(shares,
                                   asset_farms[farm_id].rewards[t].booster_log_base,
                                   booster_balance_of(account),
                                   exp10(config.booster_decimals))
    ELSE farm_id \notin DOMAIN account.farms

\* C12: a batch that succeeds settles the farms of the acting account in
\* exactly one pass, which starts after the last action of the batch, and
\* every farm the pass settled stores the boosted shares of the position
\* the account ends the batch with, the deposited rewards included.
C12_SettledOnceFromFinalShares ==
    (last.kind \in BatchKinds /\ last.ok /\ Len(last.actions) > 0) =>
        /\ Cardinality(ActingPasses(last)) = 1
        /\ \A i \in ActingPasses(last) :
              /\ last.passes[i].applied = Len(last.actions)
              /\ \A f \in last.passes[i].settled :
                    StoresBoosted(accounts[last.account_id], f,
                                  FinalShares(accounts[last.account_id], f))

\* a batch of two actions after which the pass deposited a reward: the
\* shares of the account differ after the first action, at the start of the
\* pass and at its end
C12_Witness ==
    /\ last.kind = "execute" /\ last.ok /\ Len(last.actions) = 2
    /\ \E i \in ActingPasses(last) :
          /\ SuppliedFarm("A") \in last.passes[i].settled
          /\ get_supplied_shares(last.passes[i].account, "A") = 4
          /\ get_supplied_shares(accounts[last.account_id], "A") = 6
    /\ SuppliedFarm("A") \in DOMAIN accounts[last.account_id].farms
    /\ accounts[last.account_id].farms[SuppliedFarm("A")].rewards["A"].boosted_shares = 6

-----------------------------------------------------------------------------
(* Settling twice *)

\* internal_account_apply_affected_farms run again, now, for a stored account
\* with the given farms marked, and the account stored
SettledAgain(account_id, affected_farms) ==
    internal_set_account(
        internal_account_apply_affected_farms(
            [internal_unwrap_account(NewCtx, "acting", account_id)
                EXCEPT !.mem.acting.affected_farms = affected_farms],
            "acting"),
        account_id, "acting")

\* the run `c` credited no reward and left every stored record as it is
SettlesNothing(c) ==
    /\ ~c.failed
    /\ c.all_rewards = EmptyMap
    /\ c.accounts = accounts
    /\ c.asset_farms = asset_farms
    /\ c.inactive_rewards = inactive_rewards
    /\ c.assets = assets

\* the last pass of the last invocation left the account as it is stored now
SettledLast(obs) ==
    /\ obs.ok /\ Len(obs.passes) > 0
    /\ obs.passes[Len(obs.passes)].affected_farms # {}
    /\ accounts[PassAccountId(obs, obs.passes[Len(obs.passes)])] =
           [obs.passes[Len(obs.passes)].after EXCEPT !.affected_farms = {}]

\* C13: when an invocation has just settled the farms of an account, settling
\* the same farms of that account again in the same block credits no reward
\* and leaves the reward checkpoints, the boosted shares of the account and
\* the total boosted shares of every farm unchanged.
C13_SettlingTwiceIsIdle ==
    SettledLast(last) =>
        SettlesNothing(SettledAgain(PassAccountId(last, last.passes[Len(last.passes)]),
                                    last.passes[Len(last.passes)].after.affected_farms))

\* the first run credited a reward and settled the farm that paid it
C13_Witness ==
    /\ SettledLast(last)
    /\ SuppliedFarm("A") \in last.passes[Len(last.passes)].settled
    /\ get_supplied_shares(last.passes[Len(last.passes)].after, "A") >
           get_supplied_shares(last.passes[Len(last.passes)].account, "A")
    /\ asset_farms[SuppliedFarm("A")].rewards["A"].boosted_shares > 0

-----------------------------------------------------------------------------
(* Compounding *)

\* C14: whatever the asset and the elapsed time, Asset::compound leaves
\* borrowed.balance at least as large as it was, and reserved plus
\* supplied.balance at least as large as it was.
C14_CompoundNeverDecreases ==
    (probe.kind = "asset" /\ probe.op = "compound") =>
        /\ probe.asset.borrowed.balance >= probe.before.borrowed.balance
        /\ probe.asset.reserved + probe.asset.supplied.balance
               >= probe.before.reserved + probe.before.supplied.balance

\* a compounding over a positive time that raised the debt, the reserve and
\* the balance of the suppliers
C14_Witness ==
    /\ probe.kind = "asset" /\ probe.op = "compound" /\ probe.ok
    /\ probe.time_diff_ms > 0
    /\ probe.asset.borrowed.balance > probe.before.borrowed.balance
    /\ probe.asset.reserved > probe.before.reserved
    /\ probe.asset.supplied.balance > probe.before.supplied.balance

-----------------------------------------------------------------------------
(* Updating an asset *)

\* the asset was just updated, successfully
Updated == probe.kind = "asset" /\ probe.op = "update" /\ probe.ok

\* an update right after an update, at the same block timestamp, changes
\* nothing in the asset
UpdateAgainChangesNothing ==
    (Updated /\ probe.timestamp = now /\ now' = now /\ probe'.op = "update") =>
        probe'.asset = probe.asset

-----------------------------------------------------------------------------
(* The interest rate curve *)

\* both rates of the drawn configuration were computed
RatesComputed == probe.kind = "rate" /\ probe.op = "get_rate"

\* utilization borrowed / total supplied of the point p is at most that of q
UtilizationLeq(p, q) == p[2] > 0 /\ q[2] > 0 /\ p[1] * q[2] <= q[1] * p[2]

\* the utilization of the point is strictly between the target and 100%
AboveTarget(c, p) ==
    p[2] > 0 /\ c.target_utilization * p[2] < p[1] * MAX_POS /\ p[1] < p[2]

\* get_rate returns, at least 1, no smaller at the higher utilization, and
\* strictly between the two configured rates above the target utilization
RateCurve(c, token_id, lo, hi, rate_lo, rate_hi) ==
    /\ rate_lo.ok /\ rate_lo.rate >= bd_one
    /\ rate_hi.ok /\ rate_hi.rate >= bd_one
    /\ UtilizationLeq(lo, hi) => rate_lo.rate <= rate_hi.rate
    /\ (~is_usn(token_id) /\ AboveTarget(c, lo)) =>
           /\ c.target_utilization_rate < rate_lo.rate
           /\ rate_lo.rate < c.max_utilization_rate

\* C16: for every configuration assert_valid accepts, get_rate is at least 1
\* and does not decrease when the utilization grows, and at a utilization
\* strictly between the target and 100% it lies strictly between
\* target_utilization_rate and max_utilization_rate.
C16_RateAsStated ==
    (RatesComputed /\ asset_config_assert_valid(probe.config)) =>
        RateCurve(probe.config, probe.token_id, probe.lo, probe.hi,
                  probe.rate_lo, probe.rate_hi)

\* the curve is as stated for the configurations whose target rate is at
\* least 1 and below the maximal rate
C16_RateOfRisingCurve ==
    (/\ RatesComputed
     /\ asset_config_assert_valid(probe.config)
     /\ probe.config.target_utilization_rate >= bd_one
     /\ probe.config.target_utilization_rate < probe.config.max_utilization_rate) =>
        RateCurve(probe.config, probe.token_id, probe.lo, probe.hi,
                  probe.rate_lo, probe.rate_hi)

\* the rate at 81/100 for a target utilization of 80% is strictly between
\* the two configured rates
C16_RisingCurveReached ==
    /\ RatesComputed
    /\ probe.token_id = "A"
    /\ probe.config.target_utilization = 8000
    /\ probe.lo = <<81, MaxRateSupplied>>
    /\ probe.rate_lo.ok
    /\ probe.config.target_utilization_rate < probe.rate_lo.rate
    /\ probe.rate_lo.rate < probe.config.max_utilization_rate

-----------------------------------------------------------------------------
(* Empty pools *)

\* internal_set_asset has just stored the drawn asset
AssetStored == probe.kind = "set" /\ probe.op = "set" /\ probe.ok

\* C17: in every stored asset a borrowed pool without shares has no balance,
\* and a supplied pool without shares has no balance; storing an asset
\* leaves supplied.balance + reserved as it was in memory.
C17_EmptyPoolsHoldNothing ==
    /\ \A t \in DOMAIN assets :
          /\ assets[t].borrowed.shares = 0 => assets[t].borrowed.balance = 0
          /\ assets[t].supplied.shares = 0 => assets[t].supplied.balance = 0
    /\ AssetStored =>
          assets[probe.token_id].supplied.balance + assets[probe.token_id].reserved
              = probe.asset.supplied.balance + probe.asset.reserved

\* an asset whose supplied pool had a balance and no shares was stored: the
\* balance is in the reserve
C17_Witness ==
    /\ AssetStored
    /\ probe.asset.supplied.shares = 0 /\ probe.asset.supplied.balance > 0
    /\ assets[probe.token_id].supplied.balance = 0
    /\ assets[probe.token_id].reserved =
           probe.asset.reserved + probe.asset.supplied.balance

-----------------------------------------------------------------------------
(* Entries of the share maps *)

\* every entry of the map holds shares
NoZeroEntry(map) == \A t \in DOMAIN map : map[t] > 0

\* C18: the supplied, collateral and borrowed maps of every stored account
\* hold no entry of zero shares: an entry that reaches zero is removed and
\* none is inserted at zero.
C18_NoZeroShareEntries ==
    \A a \in DOMAIN accounts :
        /\ NoZeroEntry(accounts[a].supplied)
        /\ NoZeroEntry(accounts[a].collateral)
        /\ NoZeroEntry(accounts[a].borrowed)

\* a batch pledged a part of the supplied shares and withdrew the rest: the
\* supplied entry is gone and the collateral entry holds the pledged shares
C18_Witness ==
    /\ last.kind = "execute" /\ last.ok /\ Len(last.actions) = 2
    /\ Records(last, "withdraw") # {}
    /\ "A" \notin DOMAIN accounts[last.account_id].supplied
    /\ "A" \in DOMAIN accounts[last.account_id].collateral
    /\ accounts[last.account_id].collateral["A"] = 4

-----------------------------------------------------------------------------
(* Taking more collateral than is pledged *)

\* the collateral shares an amount of the token stands for when the
\* invocation starts: the asset is updated first, the shares are rounded up
RequestedCollateralShares(token_id, amount) ==
    amount_to_shares(asset_update(assets[token_id], token_id, now).supplied, amount, TRUE)

PledgedShares(account_id, token_id) == MapGet(accounts[account_id].collateral, token_id, 0)

\* the asset amount names more collateral than the account has pledged
Overdraws(account_id, asset_amount) ==
    /\ IsSome(asset_amount.amount)
    /\ RequestedCollateralShares(asset_amount.token_id, Unwrap(asset_amount.amount))
           > PledgedShares(account_id, asset_amount.token_id)

\* the first action of the batch unpledges, or seizes, more than is pledged
OverdrawsCollateral(account_id, action) ==
    \/ /\ action.kind = "DecreaseCollateral"
       /\ Overdraws(account_id, action.asset_amount)
    \/ /\ action.kind = "Liquidate"
       /\ action.account_id \in DOMAIN accounts
       /\ \E i \in DOMAIN action.out_assets :
             Overdraws(action.account_id, action.out_assets[i])

\* C19: a batch whose DecreaseCollateral, or whose seizure of collateral in
\* a Liquidate, asks for more shares than the account has pledged fails,
\* and the pledged shares of every account stay as they were.
C19_OverdrawnCollateralFails ==
    [][(/\ last'.kind = "oracle_on_call"
        /\ last'.actions # << >>
        /\ OverdrawsCollateral(last'.account_id, last'.actions[1])) =>
           /\ ~last'.ok
           /\ accounts' = accounts]_vars

\* alice has pledged shares of A and her batch to unpledge 11 A has failed
C19_Witness ==
    /\ last.kind = "oracle_on_call" /\ ~last.ok
    /\ last.account_id = "alice"
    /\ last.actions = <<Action("DecreaseCollateral", Amt("A", 11))>>
    /\ PledgedShares("alice", "A") > 0

\* bob's liquidation of alice, who owes B, that seizes 11 A has failed
C19_SeizureReached ==
    /\ last.kind = "oracle_on_call" /\ ~last.ok
    /\ last.actions = <<LiquidateAction("alice", <<Amt("B", 1)>>, <<Amt("A", 11)>>)>>
    /\ PledgedShares("alice", "A") > 0
    /\ "B" \in DOMAIN accounts["alice"].borrowed
    /\ "B" \in DOMAIN last.prices /\ last.prices["B"].multiplier = 2

-----------------------------------------------------------------------------
(* Price data out of bounds *)

\* the data is more recent than allowed, from the future, or too old, at the
\* block timestamp and under the configuration of the call
OutOfBounds(data) ==
    \/ data.recency_duration_sec > config.maximum_recency_duration_sec
    \/ data.timestamp > now
    \/ now - data.timestamp > to_nano(config.maximum_staleness_duration_sec)

\* C20: an oracle_on_call whose price data has a recency duration above
\* maximum_recency_duration_sec, a timestamp after the block timestamp, or
\* an age above maximum_staleness_duration_sec is rejected: no action of the
\* batch is applied, nothing is written and no transfer is started.
C20_BadPriceDataRejected ==
    [][(/\ last'.kind = "oracle_on_call"
        /\ OutOfBounds(last'.price_data[1])) =>
           /\ ~last'.ok
           /\ last'.applied = 0 /\ ~last'.wrote
           /\ persisted' = persisted
           /\ promises' = promises]_vars

\* alice has pledged collateral and bob has supplied B, so her Borrow of B
\* could go through, but the price data was half a millisecond too old
C20_Witness ==
    /\ last.kind = "oracle_on_call" /\ ~last.ok
    /\ last.price_data[1].recency_duration_sec = 0
    /\ last.price_data[1].timestamp = now - TICK_NANOS
    /\ PledgedShares("alice", "A") > 0
    /\ assets["B"].supplied.balance >= 4

-----------------------------------------------------------------------------
(* The number of assets of an account *)

\* the actions that set need_number_check
NumberCheckedKinds == {"IncreaseCollateral", "Borrow", "BorrowUsn"}

\* the collateral entries plus the borrowed entries of an account
NumAssets(account) ==
    Cardinality(DOMAIN account.collateral) + Cardinality(DOMAIN account.borrowed)

\* the batch of the stored account as the loop of internal_execute leaves
\* it, before the checks that follow the loop
AfterActions(account_id, actions, prices) ==
    apply_actions(
        internal_set_prices(
            [internal_unwrap_account(NewCtx, "acting", account_id) EXCEPT
                !.acting_id = account_id, !.batch = actions],
            prices),
        account_id, actions, prices)

\* the loop of the batch ends without a panic and leaves the account with
\* more assets than the config allows
ExceedsNumAssets(c) ==
    /\ ~c.failed
    /\ NumAssets(c.mem["acting"]) > c.config.max_num_assets

\* C21: after every successful batch that holds an IncreaseCollateral, a
\* Borrow or a BorrowUsn action the acting account has at most
\* config.max_num_assets collateral entries plus borrowed entries; a batch
\* of an account call whose actions would leave it with more fails.
C21_NumberOfAssetsBounded ==
    /\ [](((last.ok /\ last.kind \in BatchKinds
                /\ HasAction(last, NumberCheckedKinds))
            => NumAssets(accounts[last.account_id]) <= config.max_num_assets))
    /\ [][(/\ last'.kind \in {"execute", "oracle_on_call"}
           /\ last'.price_data \in {<< >>, <<[timestamp |-> now, recency_duration_sec |-> 0]>>}
           /\ last'.account_id \in DOMAIN accounts
           /\ HasAction(last', NumberCheckedKinds)
           /\ ExceedsNumAssets(AfterActions(last'.account_id, last'.actions,
                                            last'.prices)))
              => (~last'.ok /\ accounts' = accounts)]_vars

\* alice's batch with a Borrow succeeded and left her with as many assets
\* as the config allows
C21_Witness ==
    /\ last.ok /\ last.kind = "oracle_on_call" /\ last.account_id = "alice"
    /\ HasAction(last, {"Borrow"})
    /\ NumAssets(accounts["alice"]) = config.max_num_assets

\* alice holds collateral and a debt, and her BorrowUsn, whose actions all
\* applied, failed on the number of assets
C21_AbortReached ==
    /\ ~last.ok /\ last.kind = "oracle_on_call" /\ last.account_id = "alice"
    /\ last.actions = <<UsnAction("BorrowUsn", 4)>>
    /\ NumAssets(accounts["alice"]) = config.max_num_assets
    /\ ExceedsNumAssets(AfterActions("alice", last.actions, last.prices))

-----------------------------------------------------------------------------
(* Repaying with less supplied than the debt *)

\* a batch of one Repay action
IsRepayBatch(obs) ==
    /\ obs.kind = "execute"
    /\ Len(obs.actions) = 1
    /\ obs.actions[1].kind = "Repay"
    /\ obs.account_id \in DOMAIN accounts
    /\ obs.actions[1].asset_amount.token_id \in DOMAIN assets

\* the asset of the repayment as the invocation reads it
RepaidAsset(asset_amount) ==
    asset_update(assets[asset_amount.token_id], asset_amount.token_id, now)

HeldSupplied(account_id, asset_amount) ==
    MapGet(accounts[account_id].supplied, asset_amount.token_id, 0)

OwedShares(account_id, asset_amount) ==
    MapGet(accounts[account_id].borrowed, asset_amount.token_id, 0)

\* the amount the Repay asks for, before the clamp
RequestedRepayment(account_id, asset_amount) ==
    asset_amount_to_shares(RepaidAsset(asset_amount).borrowed,
                           OwedShares(account_id, asset_amount),
                           asset_amount, TRUE).amount

\* the supplied shares the requested amount stands for, rounded up
NeededSupplied(account_id, asset_amount) ==
    amount_to_shares(RepaidAsset(asset_amount).supplied,
                     RequestedRepayment(account_id, asset_amount), TRUE)

\* the payer holds fewer supplied shares than the repayment needs
RepayIsClamped(account_id, asset_amount) ==
    /\ asset_update_ok(assets[asset_amount.token_id], asset_amount.token_id, now)
    /\ HeldSupplied(account_id, asset_amount) > 0
    /\ OwedShares(account_id, asset_amount) > 0
    /\ NeededSupplied(account_id, asset_amount)
           > HeldSupplied(account_id, asset_amount)

\* the value of the held supplied shares, rounded down
ClampedAmount(account_id, asset_amount) ==
    shares_to_amount(RepaidAsset(asset_amount).supplied,
                     HeldSupplied(account_id, asset_amount), FALSE)

\* the borrowed shares the clamped amount cancels, rounded down
ClampedShares(account_id, asset_amount) ==
    amount_to_shares(RepaidAsset(asset_amount).borrowed,
                     ClampedAmount(account_id, asset_amount), FALSE)

\* the record of the repayment carries the clamped amount and shares
RepaidClamped(rec, account_id, asset_amount) ==
    /\ rec.amount = ClampedAmount(account_id, asset_amount)
    /\ rec.shares = ClampedShares(account_id, asset_amount)
    /\ rec.shares > 0
    /\ rec.shares <= OwedShares(account_id, asset_amount)

\* both pools of the repaid asset lost the repaid amount
PoolsRepaid(rec, after) ==
    /\ after.supplied.balance = rec.asset.supplied.balance - rec.amount
    /\ after.borrowed.balance = rec.asset.borrowed.balance - rec.amount

\* C22: a Repay whose amount needs more supplied shares (rounded up) than
\* the payer holds repays the rounded-down value of the held shares and
\* cancels the borrowed shares of that amount rounded down, which are
\* positive and at most the debtor's; it fails when an exact amount was
\* asked for and the clamped amount is smaller.  Every successful Repay
\* lowers the supplied and the borrowed pool balance by the same amount.
C22_RepayClampedToSupplied ==
    [][IsRepayBatch(last') =>
         /\ (last'.ok /\ RepayIsClamped(last'.account_id, last'.actions[1].asset_amount))
              => \A rec \in Records(last', "repay") :
                    /\ RepaidClamped(rec, last'.account_id, last'.actions[1].asset_amount)
                    /\ rec.token_id \notin DOMAIN accounts'[last'.account_id].supplied
         /\ (/\ RepayIsClamped(last'.account_id, last'.actions[1].asset_amount)
             /\ IsSome(last'.actions[1].asset_amount.amount)
             /\ ClampedAmount(last'.account_id, last'.actions[1].asset_amount)
                    < Unwrap(last'.actions[1].asset_amount.amount))
              => ~last'.ok
         /\ last'.ok
              => /\ Cardinality(Records(last', "repay")) = 1
                 /\ \A rec \in Records(last', "repay") :
                       PoolsRepaid(rec, assets'[rec.token_id])]_vars

\* alice, whose debt of A grew with interest above the value of her
\* supplied A, repaid all she could: her supplied A is gone and a part of
\* her debt is left
C22_Witness ==
    /\ IsRepayBatch(last) /\ last.ok
    /\ last.actions[1].asset_amount = All("A")
    /\ "A" \notin DOMAIN accounts["alice"].supplied
    /\ "A" \in DOMAIN accounts["alice"].borrowed
    /\ \E rec \in Records(last, "repay") : rec.amount > 0

\* alice's Repay of exactly 5 A failed while she owed A and held supplied A
C22_ExactAmountRefused ==
    /\ IsRepayBatch(last) /\ ~last.ok
    /\ last.actions[1].asset_amount = Amt("A", 5)
    /\ RepayIsClamped("alice", Amt("A", 5))
    /\ ClampedAmount("alice", Amt("A", 5)) \in 1..4

-----------------------------------------------------------------------------
(* The staking record *)

StakingOf(account_id) == accounts[account_id].booster_staking

\* the staking record holds at least as much xBooster as staked Booster
CoversStake(booster_staking) ==
    IsSome(booster_staking) =>
        Unwrap(booster_staking).x_booster_amount
            >= Unwrap(booster_staking).staked_booster_amount

\* what a stake of the amount for the duration makes of a staking record:
\* the larger of the xBooster it holds and the xBooster of the staked amount
\* at the new duration, plus the xBooster of the new amount
XBoosterAfter(cfg, before, amount, duration_ns) ==
    Max(before.x_booster_amount,
        compute_x_booster_amount(cfg, before.staked_booster_amount, duration_ns))
    + compute_x_booster_amount(cfg, amount, duration_ns)

\* the record after the stake follows from the record before it
Restaked(cfg, before, after, timestamp) ==
    /\ after.x_booster_amount >= before.x_booster_amount
    /\ after.x_booster_amount =
           XBoosterAfter(cfg, before,
                         after.staked_booster_amount - before.staked_booster_amount,
                         after.unlock_timestamp - timestamp)

\* C23: the staking record of every account holds x_booster_amount >=
\* staked_booster_amount, and a stake on top of a staking record never
\* lowers x_booster_amount: it becomes the maximum of the value held and the
\* value recomputed for the staked amount, plus the boosted new amount.
C23_XBoosterCoversStake ==
    /\ [](\A a \in DOMAIN accounts : CoversStake(StakingOf(a)))
    /\ [][(/\ last'.kind = "account_stake_booster" /\ last'.ok
           /\ IsSome(StakingOf(last'.account_id)))
              => Restaked(config, Unwrap(StakingOf(last'.account_id)),
                          Unwrap(accounts'[last'.account_id].booster_staking), now)]_vars

\* alice staked on top of a record that held more xBooster than her staked
\* amount is worth at the new, shorter duration: the record kept its value
\* and grew by the new stake
C23_Witness ==
    /\ last.kind = "account_stake_booster" /\ last.ok
    /\ IsSome(StakingOf("alice"))
    /\ Unwrap(StakingOf("alice")).staked_booster_amount = 8
    /\ Unwrap(StakingOf("alice")).x_booster_amount = 12

-----------------------------------------------------------------------------
(* The lock of a staking *)

\* the durations the config accepts, in nanoseconds
StakingDurations(cfg) ==
    {sec_to_nano(d) : d \in cfg.minimum_staking_duration_sec
                               .. cfg.maximum_staking_duration_sec}

\* a stake that was accepted had a duration of the config's range and, on
\* top of a staking record, an unlock timestamp not before the record's
StakeAccepted(cfg, before, after, duration, timestamp) ==
    /\ sec_to_nano(duration) \in StakingDurations(cfg)
    /\ IsSome(after)
    /\ Unwrap(after).unlock_timestamp = timestamp + sec_to_nano(duration)
    /\ IsSome(before) =>
          /\ timestamp + sec_to_nano(duration) >= Unwrap(before).unlock_timestamp
          /\ Unwrap(after).unlock_timestamp >= Unwrap(before).unlock_timestamp

\* C24: a stake succeeds only with a duration between
\* minimum_staking_duration_sec and maximum_staking_duration_sec and, when
\* the account has a staking record, only if now + duration is not before
\* the record's unlock_timestamp: an account's unlock_timestamp never
\* decreases from one stake to the next.  A stake that fails leaves every
\* staking record as it was.
C24_StakeOnlyExtendsLock ==
    [][last'.kind = "account_stake_booster" =>
         IF last'.ok
         THEN StakeAccepted(config, StakingOf(last'.account_id),
                            accounts'[last'.account_id].booster_staking,
                            last'.call[1].duration, now)
         ELSE accounts' = accounts]_vars

\* alice staked for the shortest duration and then again for the longest:
\* the lock moved from the block timestamp to a second later
C24_Witness ==
    /\ last.kind = "account_stake_booster" /\ last.ok
    /\ last.call[1].duration = 1
    /\ IsSome(StakingOf("alice"))
    /\ Unwrap(StakingOf("alice")).staked_booster_amount = 8
    /\ Unwrap(StakingOf("alice")).x_booster_amount = 16
    /\ Unwrap(StakingOf("alice")).unlock_timestamp = now + NANOS_PER_SEC

\* alice's stake for the shortest duration on a record that is locked for
\* longer was refused
C24_ShorterLockRefused ==
    /\ last.kind = "account_stake_booster" /\ ~last.ok
    /\ last.call[1] = [amount |-> Some(4), duration |-> 0]
    /\ IsSome(StakingOf("alice"))
    /\ Unwrap(StakingOf("alice")).unlock_timestamp > now
    /\ MapGet(accounts["alice"].supplied, "A", 0) >= 4

\* alice, who has supplied A, was refused a stake for twice the longest
\* duration
C24_DurationRefused ==
    /\ last.kind = "account_stake_booster" /\ ~last.ok
    /\ last.call[1].duration > config.maximum_staking_duration_sec
    /\ MapGet(accounts["alice"].supplied, "A", 0) >= 4

-----------------------------------------------------------------------------
(* Unstaking *)

\* the staking record of the account is locked at the timestamp
Locked(account, timestamp) ==
    /\ IsSome(account.booster_staking)
    /\ Unwrap(account.booster_staking).unlock_timestamp > timestamp

\* the settlement pass took every potential farm of the account and
\* settled those that exist
AllFarmsReassessed(pass, farms) ==
    /\ pass.who = "acting"
    /\ get_all_potential_farms(pass.account) \subseteq pass.affected_farms
    /\ (get_all_potential_farms(pass.account) \cap DOMAIN farms) \subseteq pass.settled

\* the deposits of the invocation into the token, by position in the log
DepositsOf(obs, token_id) ==
    {i \in DOMAIN obs.log : obs.log[i].op = "deposit" /\ obs.log[i].token_id = token_id}

\* the deposit of the unstake: the staked amount, in the booster token
DepositedStake(rec, cfg, before) ==
    /\ rec.op = "deposit"
    /\ rec.token_id = cfg.booster_token_id
    /\ rec.amount = Unwrap(before.booster_staking).staked_booster_amount

\* a successful unstake of the account: the first deposit is the staked
\* amount; any other deposit is a reward that the reassessment of a
\* settled farm claimed, and the supplied position grew by the shares of
\* the deposits
Unstaked(obs, cfg, before, after, farms, timestamp) ==
    /\ IsSome(before.booster_staking)
    /\ Unwrap(before.booster_staking).unlock_timestamp <= timestamp
    /\ after.booster_staking = None
    /\ obs.log # << >>
    /\ DepositedStake(obs.log[1], cfg, before)
    /\ Len(obs.passes) = 1
    /\ AllFarmsReassessed(obs.passes[1], farms)
    /\ \A i \in DOMAIN obs.log : obs.log[i].op = "deposit"
    /\ Len(obs.log) > 1 => obs.passes[1].settled # {}
    /\ MapGet(after.supplied, cfg.booster_token_id, 0)
           = MapGet(before.supplied, cfg.booster_token_id, 0)
             + SumOver(DepositsOf(obs, cfg.booster_token_id),
                       [i \in DOMAIN obs.log |-> obs.log[i].shares])

\* the staking record is still there and holds no less staked Booster
StillStaked(before, after) ==
    /\ IsSome(after.booster_staking)
    /\ Unwrap(after.booster_staking).staked_booster_amount
           >= Unwrap(before.booster_staking).staked_booster_amount
    /\ Unwrap(after.booster_staking).unlock_timestamp
           >= Unwrap(before.booster_staking).unlock_timestamp

\* C25: an unstake succeeds only when the account has a staking record and
\* the block timestamp has reached its unlock_timestamp; it then deposits
\* exactly staked_booster_amount into the account's supplied position of the
\* booster token, clears the record and reassesses all potential farms of
\* the account.  While a record is locked no operation takes it away or
\* lowers its staked amount, and a failed unstake changes no account.
C25_UnstakeOnlyUnlocked ==
    [][/\ last'.kind = "account_unstake_booster" =>
            IF last'.ok
            THEN Unstaked(last', config, accounts[last'.account_id],
                          accounts'[last'.account_id], asset_farms', now)
            ELSE accounts' = accounts
       /\ \A a \in DOMAIN accounts :
            Locked(accounts[a], now) => StillStaked(accounts[a], accounts'[a])]_vars

\* alice took back the 4 A of her staking after its lock of a second ran out
C25_Witness ==
    /\ last.kind = "account_unstake_booster" /\ last.ok
    /\ now >= StakingOfAlice.unlock_timestamp
    /\ StakingOf("alice") = None
    /\ \E rec \in Records(last, "deposit") : rec.token_id = "A" /\ rec.amount = 4
    /\ MapGet(accounts["alice"].supplied, "A", 0) = 10

\* alice's unstake was refused: her staking is locked
C25_LockedRefused ==
    /\ last.kind = "account_unstake_booster" /\ ~last.ok
    /\ Locked(accounts["alice"], now)

\* alice unstaked while a farm of the suppliers of A exists
C25_FarmReassessed ==
    /\ last.kind = "account_unstake_booster" /\ last.ok
    /\ SuppliedFarm("A") \in DOMAIN asset_farms
    /\ SuppliedFarm("A") \in last.passes[1].settled

-----------------------------------------------------------------------------
(* Rejected configurations *)

\* an asset config the owner's calls must not take
InvalidAssetConfig(c) ==
    \/ c.reserve_ratio > 10000
    \/ c.target_utilization >= 10000
    \/ c.target_utilization_rate > c.max_utilization_rate
    \/ c.volatility_ratio >= 10000

\* a config update_config must not take
InvalidConfig(cfg) ==
    \/ cfg.minimum_staking_duration_sec >= cfg.maximum_staking_duration_sec
    \/ cfg.x_booster_multiplier_at_maximum_staking_duration < 10000

\* the asset holds a balance
HoldsBalance(asset) ==
    asset.borrowed.balance # 0 \/ asset.supplied.balance # 0 \/ asset.reserved # 0

\* the call of the observation is one that has to be rejected in the state
MustReject(obs, listed) ==
    \/ /\ obs.kind = "add_asset"
       /\ \/ InvalidAssetConfig(obs.call[1].asset_config)
          \/ obs.call[1].token_id \in DOMAIN listed
    \/ /\ obs.kind = "update_asset"
       /\ \/ InvalidAssetConfig(obs.call[1].asset_config)
          \/ obs.call[1].token_id \notin DOMAIN listed
          \/ /\ obs.call[1].token_id \in DOMAIN listed
             /\ listed[obs.call[1].token_id].config.extra_decimals
                    # obs.call[1].asset_config.extra_decimals
             /\ HoldsBalance(listed[obs.call[1].token_id])
    \/ /\ obs.kind = "update_config"
       /\ InvalidConfig(obs.call[1])

OwnerKinds == {"add_asset", "update_asset", "update_config"}

\* C26: add_asset, update_asset and update_config fail on an invalid
\* configuration, add_asset fails on a listed token, update_asset fails on
\* an unlisted token and on a change of extra_decimals while the asset
\* holds a borrowed, supplied or reserved balance; a call that fails leaves
\* the listed tokens, their records and the config as they were.
C26_InvalidConfigRejected ==
    [][last'.kind \in OwnerKinds =>
         /\ MustReject(last', assets) => ~last'.ok
         /\ ~last'.ok => (assets' = assets /\ config' = config)]_vars

\* the owner's change of the extra decimals of A, whose reserve holds a
\* deposit and whose pools are empty, was rejected
C26_Witness ==
    /\ last.kind = "update_asset" /\ ~last.ok
    /\ last.call[1].token_id = "A"
    /\ ~InvalidAssetConfig(last.call[1].asset_config)
    /\ last.call[1].asset_config.extra_decimals # assets["A"].config.extra_decimals
    /\ assets["A"].reserved > 0
    /\ assets["A"].supplied.balance = 0 /\ assets["A"].borrowed.balance = 0

\* the owner's calls that are accepted: a token is added, the extra
\* decimals of an empty asset change
C26_Accepted ==
    /\ last.kind = "update_asset" /\ last.ok
    /\ "C" \in DOMAIN assets
    /\ last.call[1].token_id = "C"
    /\ assets["C"].config.extra_decimals = 1

\* an add_asset of a listed token, an update_asset of an unlisted token and
\* an update_config with equal minimum and maximum durations were rejected
C26_OthersRejected ==
    \/ /\ last.kind = "add_asset" /\ ~last.ok
       /\ last.call[1].token_id \in DOMAIN assets
       /\ ~InvalidAssetConfig(last.call[1].asset_config)
    \/ /\ last.kind = "update_asset" /\ ~last.ok
       /\ last.call[1].token_id \notin DOMAIN assets
       /\ ~InvalidAssetConfig(last.call[1].asset_config)
    \/ /\ last.kind = "update_config" /\ ~last.ok
       /\ last.call[1].minimum_staking_duration_sec = 1

-----------------------------------------------------------------------------
(* The rewards of a farm over time *)

\* the active rewards of a stored farm and its inactive rewards
ActiveOf(farms, farm_id) ==
    IF farm_id \in DOMAIN farms THEN farms[farm_id].rewards ELSE EmptyMap

InactiveOf(inactive, farm_id) == MapGet(inactive, farm_id, EmptyMap)

\* what an update over the elapsed time takes from the remaining rewards
Acquired(reward, elapsed) ==
    Min(reward.remaining_rewards,
        (reward.reward_per_day * (elapsed \div TICK_NANOS)) \div NANOS_PER_DAY_TICKS)

\* the reward after an update over the elapsed time: nothing is distributed
\* to a farm without boosted shares
Distributed(reward, after, elapsed) ==
    IF reward.boosted_shares > 0
    THEN /\ after.remaining_rewards
                = reward.remaining_rewards - Acquired(reward, elapsed)
         /\ after.reward_per_share
                = reward.reward_per_share
                  + bd_div(bd_from(Acquired(reward, elapsed)),
                           bd_from(reward.boosted_shares))
    ELSE /\ after.remaining_rewards = reward.remaining_rewards
         /\ after.reward_per_share = reward.reward_per_share

\* the observation is an add_asset_farm_reward of the reward to the farm
AddsReward(obs, farm_id, t) ==
    /\ obs.kind = "add_asset_farm_reward"
    /\ obs.call[1].farm_id = farm_id
    /\ obs.call[1].reward_token_id = t

\* a step seen from an active reward of a stored farm
ActiveStep(obs, reward, farm_id, t, elapsed, active, inactive, updated) ==
    IF t \in DOMAIN active
    THEN /\ active[t].reward_per_share >= reward.reward_per_share
         /\ ~AddsReward(obs, farm_id, t) =>
               /\ active[t].remaining_rewards <= reward.remaining_rewards
               /\ IF updated THEN Distributed(reward, active[t], elapsed)
                  ELSE Distributed(reward, active[t], 0)
               /\ (reward.remaining_rewards > 0 /\ reward.boosted_shares > 0)
                     => active[t].remaining_rewards > 0
    ELSE /\ t \in DOMAIN inactive
         /\ reward.boosted_shares > 0
         /\ inactive[t].remaining_rewards = 0
         /\ Distributed(reward, inactive[t], elapsed)

\* a step seen from an inactive reward: it stays as it is, or an
\* add_asset_farm_reward makes it active again
InactiveStep(obs, reward, farm_id, t, active, inactive) ==
    IF AddsReward(obs, farm_id, t) /\ obs.ok
    THEN /\ t \in DOMAIN active
         /\ active[t].reward_per_share = reward.reward_per_share
    ELSE /\ t \notin DOMAIN active
         /\ t \in DOMAIN inactive
         /\ inactive[t].reward_per_share = reward.reward_per_share
         /\ inactive[t].remaining_rewards = reward.remaining_rewards

\* C27: from one stored state to the next the remaining_rewards of a reward
\* grow only in an add_asset_farm_reward of that reward and its
\* reward_per_share never falls; a farm update takes min(remaining_rewards,
\* reward_per_day * elapsed / one day) from a reward that has boosted shares
\* and nothing from one that has none; a reward whose remaining_rewards
\* reach zero leaves the active map for the inactive map, where its
\* reward_per_share stays as it is.
C27_RewardsOnlyRunDown ==
    [][\A farm_id \in FarmIds, t \in Tokens :
         /\ t \in DOMAIN ActiveOf(asset_farms, farm_id) =>
               ActiveStep(last', asset_farms[farm_id].rewards[t], farm_id, t,
                          now - asset_farms[farm_id].block_timestamp,
                          ActiveOf(asset_farms', farm_id),
                          InactiveOf(inactive_rewards', farm_id),
                          asset_farms'[farm_id].block_timestamp
                              # asset_farms[farm_id].block_timestamp)
         /\ (/\ t \notin DOMAIN ActiveOf(asset_farms, farm_id)
             /\ t \in DOMAIN InactiveOf(inactive_rewards, farm_id)) =>
               InactiveStep(last', inactive_rewards[farm_id][t], farm_id, t,
                            ActiveOf(asset_farms', farm_id),
                            InactiveOf(inactive_rewards', farm_id))]_vars

\* the reward of the farm of A's suppliers has run out: it is inactive, all
\* of it went to the reward per share, and an invocation that touched the
\* farm afterwards left it so
C27_Witness ==
    /\ "A" \notin DOMAIN ActiveOf(asset_farms, SuppliedFarm("A"))
    /\ "A" \in DOMAIN InactiveOf(inactive_rewards, SuppliedFarm("A"))
    /\ inactive_rewards[SuppliedFarm("A")]["A"].remaining_rewards = 0
    /\ inactive_rewards[SuppliedFarm("A")]["A"].reward_per_share > bd_zero
    /\ last.kind = "ft_on_transfer" /\ last.ok /\ last.account_id = "alice"
    /\ asset_farms[SuppliedFarm("A")].block_timestamp = now
    /\ asset_farms[SuppliedFarm("A")].block_timestamp
           > NANOS_PER_MS + NANOS_PER_MS

\* a part of the reward was distributed and the rest is still active
C27_PartDistributed ==
    /\ "A" \in DOMAIN ActiveOf(asset_farms, SuppliedFarm("A"))
    /\ asset_farms[SuppliedFarm("A")].rewards["A"].remaining_rewards = 1
    /\ asset_farms[SuppliedFarm("A")].rewards["A"].reward_per_share > bd_zero

-----------------------------------------------------------------------------
(* Compounding conserves value *)

\* a compounding of an asset other than the stable token that returned
Compounded ==
    /\ probe.kind = "asset" /\ probe.op = "compound" /\ probe.ok
    /\ ~is_usn(probe.token_id)

\* the interest of the compounding: the growth of the debt
InterestOf(before, after) == after.borrowed.balance - before.borrowed.balance

\* the part of the interest the reserve is to receive
ReserveShare(before, interest) ==
    IF before.supplied.shares > 0
    THEN (interest * before.config.reserve_ratio) \div 10000
    ELSE interest

\* the debt grew by what the suppliers and the reserve received together,
\* and the reserve received its share
ValueConserved(before, after) ==
    /\ InterestOf(before, after)
           = (after.supplied.balance + after.reserved)
             - (before.supplied.balance + before.reserved)
    /\ available_amount(after) = available_amount(before)
    /\ after.reserved - before.reserved
           = ReserveShare(before, InterestOf(before, after))
    /\ after.supplied.shares = before.supplied.shares
    /\ after.borrowed.shares = before.borrowed.shares

\* C28: for an asset other than the stable token, Asset::compound raises
\* borrowed.balance by as much as supplied.balance + reserved, so that
\* available_amount() is what it was; the reserve receives
\* interest * reserve_ratio / 10000, rounded down, when there are supplied
\* shares and the whole interest when there are none.
C28_CompoundConservesValue ==
    Compounded => ValueConserved(probe.before, probe.asset)

\* a compounding with suppliers whose interest does not divide: the reserve
\* received the rounded-down part and the suppliers the rest
C28_Witness ==
    /\ Compounded
    /\ probe.before.supplied.shares > 0
    /\ InterestOf(probe.before, probe.asset) > 0
    /\ (InterestOf(probe.before, probe.asset) * probe.before.config.reserve_ratio)
           % 10000 # 0
    /\ probe.asset.supplied.balance > probe.before.supplied.balance

\* a compounding without suppliers: the reserve received all the interest
C28_AllToReserve ==
    /\ Compounded
    /\ probe.before.supplied.shares = 0
    /\ probe.before.config.reserve_ratio < 10000
    /\ InterestOf(probe.before, probe.asset) > 0
    /\ probe.asset.reserved
           = probe.before.reserved + InterestOf(probe.before, probe.asset)

-----------------------------------------------------------------------------
(* The rate of the stable token *)

\* both rates of a valid configuration were computed for the stable token
StableRatesComputed ==
    /\ RatesComputed
    /\ is_usn(probe.token_id)
    /\ asset_config_assert_valid(probe.config)

\* the rate get_rate returned for the point is exactly `rate`
RateIs(r, rate) == r.ok /\ r.rate = rate

\* the rate as stated: 1 without debt, max_utilization_rate with debt
PinnedExactly(c, point, r) ==
    IF point[1] = 0 THEN RateIs(r, bd_one)
    ELSE RateIs(r, c.max_utilization_rate)

\* what the rounding of the one multiplication and the one division of
\* get_rate can add to a rate, in units of the last decimal
RoundingOf(c) == (HALF_DIVISOR \div (bd_one - bd_from_ratio(c.target_utilization))) + 1

\* the rate is 1 without debt; with debt it is max_utilization_rate up to
\* the rounding of the decimal arithmetic
PinnedUpToRounding(c, point, r) ==
    IF point[1] = 0 THEN RateIs(r, bd_one)
    ELSE /\ r.ok
         /\ r.rate >= c.max_utilization_rate - 1
         /\ r.rate <= c.max_utilization_rate + RoundingOf(c)

C29_NoDebt ==
    /\ StableRatesComputed
    /\ probe.lo = <<0, MaxRateSupplied>>
    /\ RateIs(probe.rate_lo, bd_one)

-----------------------------------------------------------------------------
(* The ASSETS cache within one invocation *)

AssetOps == last.asset_ops

\* the accesses of kind op to the asset token_id, by position
OpsOf(op, token_id) ==
    {i \in DOMAIN AssetOps : AssetOps[i].op = op /\ AssetOps[i].token_id = token_id}

\* the positions before i at which the cached value of the asset was set
SetsBefore(i) ==
    {j \in 1..(i - 1) : /\ AssetOps[j].token_id = AssetOps[i].token_id
                        /\ AssetOps[j].op \in {"load", "write"}}

Latest(positions) == CHOOSE j \in positions : \A k \in positions : k <= j

\* each asset is loaded at most once
LoadedOnce == \A t \in Tokens : Cardinality(OpsOf("load", t)) <= 1

\* a read returns the value last written, or the loaded value when the
\* asset was not written yet
ReadsLatest ==
    \A i \in DOMAIN AssetOps :
        AssetOps[i].op = "read" =>
            /\ SetsBefore(i) # {}
            /\ AssetOps[i].asset = AssetOps[Latest(SetsBefore(i))].asset

\* no value is stored from a copy read before the previous write: between
\* two writes of an asset the asset is read
WritesFromFreshCopy ==
    \A i, j \in DOMAIN AssetOps :
        (/\ i < j
         /\ AssetOps[i].op = "write" /\ AssetOps[j].op = "write"
         /\ AssetOps[i].token_id = AssetOps[j].token_id)
        => \E k \in (i + 1)..(j - 1) :
               AssetOps[k].op = "read" /\ AssetOps[k].token_id = AssetOps[i].token_id

\* C30: within one invocation each asset is loaded from the persisted assets
\* and compounded at most once, every read of an asset returns the value
\* last written in the invocation (the loaded one before the first write),
\* and no write stores a copy read before the previous write.
C30_AssetReadThroughCache == LoadedOnce /\ ReadsLatest /\ WritesFromFreshCopy

\* a batch of two actions on one asset: loaded once, written twice, and the
\* second action read what the first one wrote, not what was loaded
C30_Witness ==
    /\ last.ok /\ last.kind \in BatchKinds /\ Len(last.actions) >= 2
    /\ \E t \in Tokens :
          /\ Cardinality(OpsOf("load", t)) = 1
          /\ Cardinality(OpsOf("write", t)) >= 2
          /\ \E i \in OpsOf("read", t), l \in OpsOf("load", t) :
                /\ \E w \in OpsOf("write", t) : w < i
                /\ AssetOps[i].asset # AssetOps[l].asset

\* the load compounded the asset: the loaded value is not the persisted one
C30_LoadCompounds ==
    /\ last.ok
    /\ \E i \in DOMAIN AssetOps :
          /\ AssetOps[i].op = "load"
          /\ AssetOps[i].asset.borrowed.balance > 0
          /\ AssetOps[i].asset.last_update_timestamp = now
          /\ Cardinality(OpsOf("read", AssetOps[i].token_id)) >= 2

-----------------------------------------------------------------------------
(* Liquidations that cannot start *)

\* the action liquidates or force closes the account that runs the batch
TargetsItself(action, account_id) ==
    /\ action.kind \in {"Liquidate", "ForceClose"}
    /\ action.account_id = account_id

\* the Liquidate has no asset to repay or no asset to take
LacksAssets(action) ==
    /\ action.kind = "Liquidate"
    /\ (action.in_assets = << >> \/ action.out_assets = << >>)

CannotStart(action, account_id) ==
    TargetsItself(action, account_id) \/ LacksAssets(action)

\* C31: a batch with a Liquidate or ForceClose whose target is the acting
\* account, or with a Liquidate whose in_assets or out_assets is empty,
\* aborts and changes nothing.
C31_SelfOrEmptyLiquidationAborts ==
    /\ [](\A i \in DOMAIN last.actions :
             CannotStart(last.actions[i], last.account_id) => ~last.ok)
    /\ [][(\E i \in DOMAIN last'.actions :
              CannotStart(last'.actions[i], last'.account_id))
          => UNCHANGED persisted]_vars

\* alice, who is liquidatable at the prices of the call, was refused the
\* liquidation of herself
C31_Witness ==
    /\ last.kind = "oracle_on_call" /\ ~last.ok
    /\ last.account_id = "alice"
    /\ Len(last.actions) = 1 /\ last.actions[1].kind = "Liquidate"
    /\ TargetsItself(last.actions[1], "alice")
    /\ MaxDiscountOf("alice", last.prices) > bd_zero

\* bob was refused a Liquidate of the liquidatable alice that takes nothing
C31_EmptyRefused ==
    /\ last.kind = "oracle_on_call" /\ ~last.ok
    /\ last.account_id = "bob"
    /\ last.actions[1].account_id = "alice"
    /\ last.actions[1].in_assets # << >> /\ last.actions[1].out_assets = << >>
    /\ MaxDiscountOf("alice", last.prices) > bd_zero

\* alice was refused the force close of herself while her debt is worth more
\* than her collateral
C31_SelfCloseRefused ==
    /\ last.kind = "oracle_on_call" /\ ~last.ok
    /\ last.actions[1].kind = "ForceClose"
    /\ TargetsItself(last.actions[1], last.account_id)
    /\ MaxDiscountOf("alice", last.prices) > bd_zero

\* the same Liquidate of alice by bob, with both lists, went through
C31_Liquidated ==
    /\ last.kind = "oracle_on_call" /\ last.ok
    /\ last.account_id = "bob" /\ last.actions[1].kind = "Liquidate"

-----------------------------------------------------------------------------
(* Conservation of shares *)

\* the shares of the token that the accounts hold as supply and collateral
HeldShares(accs, token_id) ==
    SumOver(DOMAIN accs,
            [a \in DOMAIN accs |->
                MapGet(accs[a].supplied, token_id, 0)
                + MapGet(accs[a].collateral, token_id, 0)])

\* the shares of the token that the accounts owe
OwedByAll(accs, token_id) ==
    SumOver(DOMAIN accs, [a \in DOMAIN accs |-> MapGet(accs[a].borrowed, token_id, 0)])

SharesConserved(token_id) ==
    /\ HeldShares(accounts, token_id) = assets[token_id].supplied.shares
    /\ OwedByAll(accounts, token_id) = assets[token_id].borrowed.shares

\* C32: in every persisted state, for every token, the supplied and
\* collateral shares of all accounts add up to the asset's supplied.shares
\* and their borrowed shares add up to the asset's borrowed.shares.
C32_SharesConserved == \A t \in DOMAIN assets : SharesConserved(t)

-----------------------------------------------------------------------------
(* Solvency of the pools *)

\* what the asset holds covers what was lent out of it
Solvent(asset) == asset.supplied.balance + asset.reserved >= asset.borrowed.balance

\* C33: in every reachable state every asset has
\* supplied.balance + reserved >= borrowed.balance.
C33_PoolsSolvent == \A t \in DOMAIN assets : Solvent(assets[t])

-----------------------------------------------------------------------------
(* Isolation of the accounts' health *)

\* the batch liquidates or force closes the account
Targets(obs, account_id) ==
    \E i \in DOMAIN obs.actions :
        /\ obs.actions[i].kind \in {"Liquidate", "ForceClose"}
        /\ obs.actions[i].account_id = account_id

\* the account is healthy at the price of B, the assets compounded to the
\* block timestamp
Healthy(account_id, pb) == MaxDiscountOf(account_id, PriceDataOf(pb).prices) = bd_zero

\* C34: a successful batch of one account, at fixed prices and within one
\* block timestamp, leaves every other account that was healthy healthy,
\* unless the batch liquidates or force closes that account.
C34_HealthIsolated ==
    (last.ok /\ last.kind \in BatchKinds)
    => \A h \in last.healthy :
          (h[1] # last.account_id /\ ~Targets(last, h[1])) => Healthy(h[1], h[2])

\* bob borrowed B after interest had accrued, while alice, who owes B too, is
\* healthy at a B price of 1 and would not be with one unit more of debt
C34_Witness ==
    /\ last.ok /\ last.kind = "oracle_on_call" /\ last.account_id = "bob"
    /\ HasAction(last, {"Borrow"})
    /\ assets["B"].borrowed.balance > assets["B"].borrowed.shares
    /\ MapGet(accounts["alice"].borrowed, "B", 0) > 0
    /\ MapGet(accounts["bob"].borrowed, "B", 0) > 0
    /\ <<"alice", 1>> \in last.healthy
    /\ shares_to_amount(assets["B"].borrowed, accounts["alice"].borrowed["B"], TRUE) = 7

-----------------------------------------------------------------------------
(* The available amount of an asset *)

\* the kinds of action that move no token in or out of an asset
KeepsAvailable ==
    {"Borrow", "Repay", "IncreaseCollateral", "DecreaseCollateral", "Liquidate", "ForceClose"}

\* the batch is an execute or oracle call made of such actions only
OnlyKeepsAvailable(obs) ==
    /\ obs.ok /\ obs.kind \in {"execute", "oracle_on_call"}
    /\ obs.actions # << >>
    /\ \A i \in DOMAIN obs.actions : obs.actions[i].kind \in KeepsAvailable

\* what the batch deposited of the token: the farm rewards claimed in it
Deposited(obs, token_id) ==
    SumOver(DepositsOf(obs, token_id), [i \in DepositsOf(obs, token_id) |-> obs.log[i].amount])

\* the invocation moves tokens in or out of the asset: a deposit (of a
\* transfer, of a refund, of a claimed farm reward), a Withdraw, a deposit to
\* the reserve, the funding of a farm reward, a booster stake or unstake
MovesTokens(obs, token_id) ==
    \/ obs.kind \in {"ft_on_transfer", "deposit_to_reserve", "after_ft_transfer",
                     "add_asset_farm_reward",
                     "account_stake_booster", "account_unstake_booster"}
    \/ \E r \in Records(obs, "deposit") \cup Records(obs, "withdraw") : r.token_id = token_id

\* C35: a successful batch of Borrow, Repay, IncreaseCollateral,
\* DecreaseCollateral, Liquidate and ForceClose actions leaves the available
\* amount of every asset but USN as it was, apart from the deposits of the
\* farm rewards claimed in the batch; the available amount of such an asset
\* changes only in an invocation that deposits, withdraws, deposits to the
\* reserve, funds a farm reward, stakes or unstakes.
C35_AvailableAmountKept ==
    /\ [][OnlyKeepsAvailable(last')
          => \A t \in DOMAIN assets \ {usn_id} :
                available_amount(assets'[t]) = available_amount(assets[t]) + Deposited(last', t)]_vars
    /\ [][\A t \in (DOMAIN assets \cap DOMAIN assets') \ {usn_id} :
             available_amount(assets'[t]) # available_amount(assets[t]) => MovesTokens(last', t)]_vars

\* a batch of such actions has changed the pools of an asset other than USN
C35_Witness ==
    /\ OnlyKeepsAvailable(last) /\ last.wrote
    /\ \E r \in Records(last, "borrow") \cup Records(last, "repay") : r.token_id # usn_id

C35_Liquidated ==
    OnlyKeepsAvailable(last) /\ Records(last, "liquidate") # {}

C35_ForceClosed ==
    OnlyKeepsAvailable(last) /\ Records(last, "force_close") # {}

C35_RewardClaimed ==
    OnlyKeepsAvailable(last) /\ \E t \in DOMAIN assets \ {usn_id} : Deposited(last, t) > 0

-----------------------------------------------------------------------------
(* Collateral moves *)

CollateralMoves == {"IncreaseCollateral", "DecreaseCollateral"}

\* a successful execute or oracle call made of collateral moves only
OnlyCollateralMoves(obs) ==
    /\ obs.ok /\ obs.kind \in {"execute", "oracle_on_call"}
    /\ obs.actions # << >>
    /\ \A i \in DOMAIN obs.actions : obs.actions[i].kind \in CollateralMoves

\* the shares of the token the account holds, supplied or pledged
HeldOf(account, token_id) ==
    MapGet(account.supplied, token_id, 0) + MapGet(account.collateral, token_id, 0)

\* the shares the batch deposited of the token: the farm rewards claimed
DepositedShares(obs, token_id) ==
    SumOver(DepositsOf(obs, token_id), [i \in DepositsOf(obs, token_id) |-> obs.log[i].shares])

SamePools(a, b) ==
    a.supplied = b.supplied /\ a.borrowed = b.borrowed /\ a.reserved = b.reserved

C36_Withdrawn ==
    /\ last.ok /\ last.kind \in BatchKinds /\ HasAction(last, {"Withdraw"})
    /\ accounts[last.account_id].collateral # EmptyMap
    /\ Records(last, "withdraw") # {}

-----------------------------------------------------------------------------
(* The boosted shares of the farms *)

\* the boosted shares an account has stored for a reward token of a farm
EntryShares(account, farm_id, token_id) ==
    IF farm_id \in DOMAIN account.farms /\ token_id \in DOMAIN account.farms[farm_id].rewards
    THEN account.farms[farm_id].rewards[token_id].boosted_shares
    ELSE 0

\* the sum of them over all accounts
EntryTotal(accs, farm_id, token_id) ==
    SumOver(DOMAIN accs, [a \in DOMAIN accs |-> EntryShares(accs[a], farm_id, token_id)])

\* the inactive rewards stored for the farm
InactiveRewardsOf(farm_id) == MapGet(inactive_rewards, farm_id, EmptyMap)

\* C37: in every persisted state the boosted shares of every active reward
\* of every farm are the sum of the boosted shares the accounts have stored
\* for that farm and reward token, and so are those of every inactive reward
\* whose token is not active in the farm.
C37_BoostedSharesAreSum ==
    \A farm_id \in DOMAIN asset_farms :
        /\ \A t \in DOMAIN asset_farms[farm_id].rewards :
              asset_farms[farm_id].rewards[t].boosted_shares
                  = EntryTotal(accounts, farm_id, t)
        /\ \A t \in (DOMAIN InactiveRewardsOf(farm_id)) \ DOMAIN asset_farms[farm_id].rewards :
              InactiveRewardsOf(farm_id)[t].boosted_shares
                  = EntryTotal(accounts, farm_id, t)

\* a settlement has changed the boosted shares of one of two accounts that
\* have boosted shares in one farm reward
C37_Witness ==
    /\ last.ok /\ last.settled # {}
    /\ \E farm_id \in DOMAIN asset_farms : \E t \in DOMAIN asset_farms[farm_id].rewards :
          /\ EntryShares(accounts["alice"], farm_id, t) > 0
          /\ EntryShares(accounts["bob"], farm_id, t) > 0
          /\ EntryShares(accounts["alice"], farm_id, t) # EntryShares(accounts["bob"], farm_id, t)

\* an inactive reward still has boosted shares of an account
C37_InactiveHeld ==
    \E farm_id \in DOMAIN asset_farms :
        \E t \in (DOMAIN InactiveRewardsOf(farm_id)) \ DOMAIN asset_farms[farm_id].rewards :
            InactiveRewardsOf(farm_id)[t].boosted_shares > 0

-----------------------------------------------------------------------------
(* The checkpoints of a settlement *)

\* the context of a fresh invocation that has loaded the farm
FarmCtx(farm_id) == internal_get_asset_farm(NewCtx, farm_id, FALSE)

\* internal_account_farm_claim of a stored account for a stored farm, in a
\* fresh invocation
ClaimOf(account_id, farm_id) ==
    internal_account_farm_claim(accounts[account_id], farm_id,
                                FarmCtx(farm_id).farm_cache[farm_id],
                                FarmInactive(FarmCtx(farm_id), farm_id), now)

\* the record of the claim has an entry for every active reward of the farm
HasCheckpoints(account_id, farm_id) ==
    DOMAIN FarmCtx(farm_id).farm_cache[farm_id].rewards
        \subseteq DOMAIN ClaimOf(account_id, farm_id).account_farm.rewards

\* every token the account earned that is not active is an inactive reward
EarnedAreKept(account_id, farm_id) ==
    \A t \in DOMAIN MapGet(accounts[account_id].farms, farm_id, NewAccountFarm).rewards :
        \/ t \in DOMAIN FarmCtx(farm_id).farm_cache[farm_id].rewards
        \/ t \in DOMAIN FarmInactive(FarmCtx(farm_id), farm_id)

\* C38: the settlement of a farm finds its checkpoints: for every account
\* and every farm, the record internal_account_farm_claim produces has an
\* entry for every active reward token of the farm, and every token of the
\* account's stored record that is not active is in the inactive map.
C38_CheckpointsPresent ==
    \A a \in AccountIds, farm_id \in DOMAIN asset_farms :
        HasCheckpoints(a, farm_id) /\ EarnedAreKept(a, farm_id)

\* a batch of an account that settled the farm in this block panicked after
\* a reward token was added to the farm
C38_SettlementPanicked ==
    /\ ~last.ok /\ last.kind = "execute"
    /\ \E farm_id \in DOMAIN asset_farms :
          /\ farm_id \in DOMAIN accounts[last.account_id].farms
          /\ accounts[last.account_id].farms[farm_id].block_timestamp = now
          /\ ~HasCheckpoints(last.account_id, farm_id)

-----------------------------------------------------------------------------
(* The work list of a settlement pass *)

\* no farm id is claimed twice
ClaimedOnce(claims) ==
    \A i, j \in DOMAIN claims : claims[i] = claims[j] => i = j

\* the farms a pass was started for, and the NetTvl farm
Started(pass) == pass.affected_farms \cup {NetTvlFarm}

\* the farm ids the pass pushed: claimed and not among those it started for
Pushed(pass) == {pass.claims[i] : i \in DOMAIN pass.claims} \ Started(pass)

\* the tokens the pass deposited as rewards
RewardTokens(obs) == {r.token_id : r \in Records(obs, "deposit")}

PassAsStated(obs, pass) ==
    IF pass.affected_farms = {}
    THEN pass.claims = << >>
    ELSE /\ ClaimedOnce(pass.claims)
         /\ Len(pass.claims) <= Cardinality(pass.after.affected_farms)
         /\ NetTvlFarm \in pass.after.affected_farms
         /\ (NetTvlFarm \in DOMAIN asset_farms
                => \E i \in DOMAIN pass.claims : pass.claims[i] = NetTvlFarm)
         /\ \A i \in DOMAIN pass.claims : pass.claims[i] \in pass.after.affected_farms
         /\ \A farm_id \in Pushed(pass) :
               \E t \in RewardTokens(obs) : farm_id = SuppliedFarm(t)

\* C39: a settlement pass of a successful invocation ends having claimed
\* every farm id at most once: it claims nothing when no farm is affected;
\* otherwise the NetTvl farm is among the affected farms (and is claimed
\* when it exists), and a farm id claimed beyond the ones the pass started
\* for is the Supplied farm of a claimed reward token that was not affected.
C39_EachFarmClaimedOnce ==
    last.ok => \A i \in DOMAIN last.passes : PassAsStated(last, last.passes[i])

\* a pass claimed the Supplied farm of a reward token it had claimed in
\* another farm
C39_Witness ==
    /\ last.ok
    /\ \E i \in DOMAIN last.passes : Pushed(last.passes[i]) # {}

\* a pass claimed a reward whose Supplied farm was affected already
C39_NotPushedAgain ==
    /\ last.ok /\ last.kind = "execute" /\ ~HasAction(last, {"Deposit"})
    /\ \E i \in DOMAIN last.passes : \E t \in RewardTokens(last) :
          /\ SuppliedFarm(t) \in last.passes[i].affected_farms
          /\ \E k \in DOMAIN last.passes[i].claims : last.passes[i].claims[k] = SuppliedFarm(t)

====
